---- MODULE Spec2Model ----
(***************************************************************************)
(* SneakZone storefront: the HTTP API of server.js over the SQLite store   *)
(* of database.js and the admin functions of admin.js.                     *)
(*                                                                         *)
(* One step is one HTTP request, run through the whole middleware chain    *)
(* of server.js (session, CSRF guard, authenticateToken, requireAdmin,     *)
(* validation) to its response.  A request that a middleware answers is    *)
(* the step CsrfRejected, Unauthenticated or AdminRequired; a request that *)
(* reaches its route handler is the step of that handler.  `last` is the   *)
(* request just served and the response sent for it.                       *)
(***************************************************************************)
EXTENDS Naturals, Integers, Sequences, FiniteSets, Bags, TLC

VARIABLES
    users,          \* table users: id -> row
    userSeq,        \* AUTOINCREMENT sequence of users
    products,       \* table products: id -> row
    productSeq,     \* AUTOINCREMENT sequence of products
    favorites,      \* table favorites: bag of rows
    cart_items,     \* table cart_items: bag of rows
    sessions,       \* session store: client cookie -> session data
    secretSeq,      \* number of CSRF secrets generated so far
    adds,           \* history: successful cart adds of a pair since it last had no row
    idle,           \* minutes since the session of each client was last touched
    api,            \* the page's API client (public/app.js) and its call in progress
    limiter,        \* authLimiter: hits of the window, the request it let through
    adding,         \* per browser, the cart add that is between its SELECT and its write
    uri,            \* the product name on its way from the page to the handler
    updating,       \* per browser, the admin user update or delete that has passed authenticateToken
    app,            \* the page's App and Auth state (public/app.js) and its call in progress
    toggling,       \* per browser, the favorites toggle that is between its SELECT and its write
    last            \* the request just served and its response

vars == <<users, userSeq, products, productSeq, favorites, cart_items,
          sessions, secretSeq, adds, idle, api, limiter, adding, uri, updating, app, toggling, last>>

\* the variables of the server
server == <<users, userSeq, products, productSeq, favorites, cart_items,
            sessions, secretSeq, adds, idle, limiter, adding, uri, updating, toggling, last>>

store == <<users, userSeq, products, productSeq, favorites, cart_items>>

----------------------------------------------------------------------------
(* Bounds of the model *)

MaxUsers == 2
\* user ids given out: deleted rows leave room for MaxUserId - MaxUsers more
MaxUserId == 3
\* the longest product name, in characters
MaxChars == 3
MaxProducts == 4
MaxQty == 2
MaxSecrets == 2
\* token fetches the page has scheduled with setTimeout and not yet run
MaxTimers == 1
\* starts of the server on the store it has initialised before
MaxStarts == 1
\* attempts of one key beyond the limit that are followed in one window
MaxBeyond == 2
\* minutes that pass in one step of the clock
TickMinutes == 10

(* Program constants *)

MinPasswordLen == 8
MinNameLen == 2
MaxNameLen == 50
\* cookie.maxAge of the session, 30 * 60 * 1000 ms, in minutes
maxAge == 30
\* max of authLimiter
authMax == 10

Clients == {"c1", "c2"}

Absent == "absent"

AdminEmail == "admin@sneakzone.com"
AdminPassword == "#Adm1nSneakZone97!"

SeedProducts == <<"Air Jordan 1 Retro High", "Yeezy Boost 350 V2", "Air Max 90">>

----------------------------------------------------------------------------
(* Routes *)

MutatingRoutes ==
    { "POST /api/auth/register", "POST /api/auth/login", "POST /api/auth/logout",
      "POST /api/users/favorites/:productName",
      "POST /api/users/cart/:productName", "DELETE /api/users/cart/:productName",
      "PUT /api/admin/users/:userId", "DELETE /api/admin/users/:userId",
      "POST /api/admin/products" }

AdminRoutes ==
    { "GET /api/admin/users", "GET /api/admin/stats", "GET /api/admin/products",
      "PUT /api/admin/users/:userId", "DELETE /api/admin/users/:userId",
      "POST /api/admin/products" }

\* the routes that carry authenticateToken
SessionRoutes ==
    { "GET /api/auth/verify", "GET /api/users/favorites", "GET /api/users/cart",
      "POST /api/users/favorites/:productName",
      "POST /api/users/cart/:productName", "DELETE /api/users/cart/:productName" }
    \cup AdminRoutes

----------------------------------------------------------------------------
(* Request inputs *)

\* e-mail addresses as typed; "jane" is not an address
LoginEmails == {AdminEmail, "jane@example.com", "Jane@Example.com", "bob@example.com", "jane"}
LoginPasswords == {"password1", AdminPassword, ""}

Body(email, password, firstName, lastName, role) ==
    [email |-> email, password |-> password, firstName |-> firstName,
     lastName |-> lastName, role |-> role]

\* registration bodies; role is a field the form does not have
RegisterBodies ==
    { Body("jane@example.com", "password1", "Jane", "Doe", Absent),
      Body("Jane@Example.com", "password1", "Jane", "Doe", "admin"),
      Body("bob@example.com", "password1", "Bob", "Doe", "admin"),
      Body(AdminEmail, "password1", "Jane", "Doe", Absent),
      Body("jane", "password1", "Jane", "Doe", Absent),
      Body("jane@example.com", "short", "Jane", "Doe", Absent),
      Body("jane@example.com", "password1", "J", "Doe", Absent) }

\* product names asked for on the favorites and cart routes
ReqNames == {"Air Max 90", "Ghost 9"}
\* product names an administrator adds (Absent: the body has no name)
AddNames == {"Air Max 90", "Runner X", Absent}

\* :userId path values, one character per element
PathValues ==
    { <<"1">>, <<"2">>, <<"1", ".", "0">>,
      <<"0", ".", "1", "e", "1">>, <<"2", "0", "e", "-", "1">>, <<"x">> }

\* bodies of PUT /api/admin/users/:userId
Update(role, is_active) == [role |-> role, is_active |-> is_active]
UpdateBodies ==
    { Update("admin", Absent), Update("user", Absent), Update(Absent, "false"),
      Update(Absent, "true"), Update("root", "yes") }

----------------------------------------------------------------------------
(* express-validator *)

\* isEmail(): the typed value is an address
isEmail(e) == e \in {AdminEmail, "jane@example.com", "Jane@Example.com", "bob@example.com"}

\* normalizeEmail(): lower-cases the address
normalizeEmail(e) ==
    CASE e = "Jane@Example.com" -> "jane@example.com"
      [] OTHER -> e

registerValid(b) ==
    /\ isEmail(b.email)
    /\ Len(b.password) >= MinPasswordLen
    /\ Len(b.firstName) >= MinNameLen /\ Len(b.firstName) <= MaxNameLen
    /\ Len(b.lastName) >= MinNameLen /\ Len(b.lastName) <= MaxNameLen

loginValid(email, password) == isEmail(email) /\ Len(password) > 0

(* bcryptjs *)

bcryptHash(password) == <<"bcrypt", password>>
bcryptCompare(password, hash) == hash = bcryptHash(password)

----------------------------------------------------------------------------
(* Numbers in text *)

Digits == {"0", "1", "2", "3", "4", "5", "6", "7", "8", "9"}
DigitVal(ch) ==
    CASE ch = "0" -> 0 [] ch = "1" -> 1 [] ch = "2" -> 2 [] ch = "3" -> 3
      [] ch = "4" -> 4 [] ch = "5" -> 5 [] ch = "6" -> 6 [] ch = "7" -> 7
      [] ch = "8" -> 8 [] ch = "9" -> 9

RECURSIVE digitsEnd(_, _)
\* the index after the run of digits of s that starts at i
digitsEnd(s, i) == IF i <= Len(s) /\ s[i] \in Digits THEN digitsEnd(s, i + 1) ELSE i

RECURSIVE digitsVal(_, _, _)
\* the number written by s[i..j-1]
digitsVal(s, i, j) == IF j <= i THEN 0 ELSE digitsVal(s, i, j - 1) * 10 + DigitVal(s[j - 1])

RECURSIVE Pow10(_)
Pow10(n) == IF n = 0 THEN 1 ELSE 10 * Pow10(n - 1)

NaN == -1

\* JavaScript parseInt(text): the leading run of digits, NaN when there is none
parseInt(s) == IF digitsEnd(s, 1) = 1 THEN NaN ELSE digitsVal(s, 1, digitsEnd(s, 1))

\* SQLite, `WHERE id = ?` with a text parameter: the INTEGER column gives the
\* text NUMERIC affinity, so a well-formed integer or real literal is read as
\* a number and matches the rowid it equals; 0 when it matches no rowid
sqliteRowid(s) ==
    LET i1 == digitsEnd(s, 1)
        hasDot == i1 <= Len(s) /\ s[i1] = "."
        f0 == IF hasDot THEN i1 + 1 ELSE i1
        f1 == digitsEnd(s, f0)
        hasExp == f1 <= Len(s) /\ s[f1] = "e"
        neg == hasExp /\ f1 + 1 <= Len(s) /\ s[f1 + 1] = "-"
        x0 == IF hasExp THEN (IF neg THEN f1 + 2 ELSE f1 + 1) ELSE f1
        x1 == IF hasExp THEN digitsEnd(s, x0) ELSE f1
        wellFormed == /\ x1 = Len(s) + 1
                      /\ (i1 > 1 \/ f1 > f0)
                      /\ (hasExp => x1 > x0)
        mantissa == digitsVal(s, 1, i1) * Pow10(f1 - f0) + digitsVal(s, f0, f1)
        exp == IF hasExp THEN digitsVal(s, x0, x1) ELSE 0
        up == IF neg THEN 0 ELSE exp
        down == (f1 - f0) + (IF neg THEN exp ELSE 0)
        num == mantissa * Pow10(up)
    IN  IF ~wellFormed THEN 0
        ELSE IF num % Pow10(down) # 0 THEN 0
        ELSE num \div Pow10(down)

----------------------------------------------------------------------------
(* SQLite tables *)

Min(S) == CHOOSE x \in S : \A y \in S : x <= y

\* faulty variant: without AUTOINCREMENT the id is the largest id in the
\* table plus one, so the id of a deleted last row is given again
NextIdOfTable(seq) ==
    IF DOMAIN users = {} THEN 1
    ELSE (CHOOSE i \in DOMAIN users : \A j \in DOMAIN users : j <= i) + 1

\* AUTOINCREMENT: one more than the largest id ever used
NextId(seq) == seq + 1

\* faulty variant: the lookup finds no row
userByEmailNone(email) == 0

\* SELECT ... FROM users WHERE email = ?  (email is UNIQUE)
userByEmail(email) ==
    LET ids == {i \in DOMAIN users : users[i].email = email}
    IN  IF ids = {} THEN 0 ELSE Min(ids)

\* SELECT id FROM products WHERE name = ?  (the first row in rowid order)
productByName(name) ==
    LET ids == {i \in DOMAIN products : products[i].name = name}
    IN  IF ids = {} THEN 0 ELSE Min(ids)

Fav(u, p) == [user_id |-> u, product_id |-> p]
Item(u, p, q) == [user_id |-> u, product_id |-> p, quantity |-> q]

\* the rows of a (user, product) pair, and how many there are
favCount(favs, u, p) == CopiesIn(Fav(u, p), favs)
cartRows(items, u, p) == {r \in BagToSet(items) : r.user_id = u /\ r.product_id = p}
RECURSIVE SumCopies(_, _)
SumCopies(B, S) ==
    IF S = {} THEN 0
    ELSE LET r == CHOOSE x \in S : TRUE IN CopiesIn(r, B) + SumCopies(B, S \ {r})
cartCount(items, u, p) == SumCopies(items, cartRows(items, u, p))

One(r) == SetToBag({r})

\* no admin user update or delete of the browser is between its
\* authenticateToken and its write
NoUpdate == [route |-> "", me |-> 0, role |-> "", req |-> <<>>]

\* faulty variant: the tables have no UNIQUE(user_id, product_id)
insertAccepted(count) == FALSE

\* UNIQUE(user_id, product_id): an INSERT is refused when the pair has a row
insertRefused(count) == count > 0

\* no cart add of the browser is between its SELECT and its write
NoCall == [user |-> 0, product |-> 0, req |-> <<>>, existing |-> FALSE, gone |-> FALSE]

\* foreign keys: SQLite enforces REFERENCES ... ON DELETE CASCADE only on a
\* connection that ran PRAGMA foreign_keys = ON, which database.js never does
foreignKeys == FALSE

\* DELETE FROM users WHERE id = ?: the child rows that go with the user
favoritesAfterDelete(id) ==
    IF foreignKeys
    THEN [r \in {x \in BagToSet(favorites) : x.user_id # id} |-> favorites[r]]
    ELSE favorites
cartAfterDelete(id) ==
    IF foreignKeys
    THEN [r \in {x \in BagToSet(cart_items) : x.user_id # id} |-> cart_items[r]]
    ELSE cart_items

----------------------------------------------------------------------------
(* Session store and CSRF guard *)

NoSession == [userId |-> 0, csrfSecret |-> 0]

\* req.csrfToken(): a token made from the session's secret
csrfToken(secret) == [secret |-> secret]
NoToken == csrfToken(0)

\* the tokens a client can present: none, or one issued at some time
Tokens == {csrfToken(k) : k \in 0..secretSeq}

\* faulty variant: any issued token passes, whatever session it was made for
csrfVerifyAnySession(secret, token) == secret # 0 /\ token # NoToken

\* tokens.verify(secret, token)
csrfVerify(secret, token) == secret # 0 /\ token = csrfToken(secret)

\* the guard of app.use('/api', ...): GET, HEAD and OPTIONS pass, the
\* others need a token of the session's secret
csrfProtection(route, secret, token) ==
    route \notin MutatingRoutes \/ csrfVerify(secret, token)

\* csurf: a session without a secret gets a new one
secretOf(c) == IF sessions[c].csrfSecret = 0 THEN secretSeq + 1 ELSE sessions[c].csrfSecret
withSecret(c) == [sessions EXCEPT ![c].csrfSecret = secretOf(c)]
secretSeqAfter(c) == IF sessions[c].csrfSecret = 0 THEN secretSeq + 1 ELSE secretSeq
canSecret(c) == sessions[c].csrfSecret # 0 \/ secretSeq < MaxSecrets

\* faulty variant: the expiry set at login is never renewed
sessionNotTouched(c) == idle

\* rolling: true -- each response renews the expiry of the session (touch)
sessionTouched(c) == [idle EXCEPT ![c] = 0]

\* MemoryStore: a session is gone once its expiry, maxAge after its last
\* touch, is not in the future (expires <= now)
expired(c, minutes) == minutes >= maxAge

Response(route, c, req, status, message, body) ==
    [route |-> route, client |-> c, req |-> req, status |-> status,
     message |-> message, body |-> body]

NoBody == [dbOps |-> 0]

----------------------------------------------------------------------------
(* Custom middleware *)

\* faulty variant: is_active is not looked at
authenticateTokenAnyRow(c) ==
    LET uid == sessions[c].userId IN
    IF uid = 0
    THEN [status |-> 401, message |-> "Non authentifié", user |-> 0]
    ELSE IF uid \notin DOMAIN users
    THEN [status |-> 401, message |-> "Utilisateur non trouvé ou désactivé", user |-> 0]
    ELSE [status |-> 200, message |-> "", user |-> uid]

\* authenticateToken: the 401 answers, or the id of the row put in req.user
authenticateToken(c) ==
    LET uid == sessions[c].userId IN
    IF uid = 0
    THEN [status |-> 401, message |-> "Non authentifié", user |-> 0]
    ELSE IF uid \notin DOMAIN users \/ ~users[uid].is_active
    THEN [status |-> 401, message |-> "Utilisateur non trouvé ou désactivé", user |-> 0]
    ELSE [status |-> 200, message |-> "", user |-> uid]

\* faulty variant: every user passes
requireAdminAnyRole(uid) == TRUE

\* requireAdmin
requireAdmin(uid) == users[uid].role = "admin"

\* the request passes the guard and the middleware of its route
reaches(c, route, token) ==
    /\ csrfProtection(route, sessions[c].csrfSecret, token)
    /\ route \in SessionRoutes => authenticateToken(c).status = 200
    /\ route \in AdminRoutes => requireAdmin(authenticateToken(c).user)

----------------------------------------------------------------------------
(* The page, public/app.js: class App and Auth.currentUser *)

NoAppCall == [op |-> "", name |-> ""]

\* no product name is on its way
NoUri == [name |-> <<>>, path |-> <<>>, param |-> <<>>, lookup |-> <<>>,
          step |-> "idle", status |-> 0]

\* the page as loaded: nobody signed in, empty maps.  loaded is history:
\* loadUserData has run to its end since the sign-in
AppLoaded ==
    [user |-> 0, favorites |-> {}, cart |-> <<>>, call |-> NoAppCall, loaded |-> FALSE]

\* the products the page shows
AppNames == {"Air Max 90", "Yeezy Boost 350 V2"}

----------------------------------------------------------------------------
(* authLimiter, express-rate-limit on /api/auth/login and /api/auth/register *)

NoRequest == [client |-> "", route |-> "", key |-> <<>>]

\* an empty window, no request in progress.  through and failed are history:
\* the attempts of the window let through, and those of them answered with
\* an error
LimiterStart == [hits |-> <<>>, inflight |-> NoRequest, through |-> <<>>, failed |-> <<>>]

countOf(f, k) == IF k \in DOMAIN f THEN f[k] ELSE 0
raised(f, k) == (k :> (countOf(f, k) + 1)) @@ f
lowered(f, k) == (k :> (countOf(f, k) - 1)) @@ f

\* keyGenerator: req.ip + '-' + req.body.email, the e-mail as sent
keyGenerator(c, email) == <<c, email>>

\* faulty variant: no request counts as successful
requestWasNeverSuccessful(status) == FALSE

\* skipSuccessfulRequests: a response with a status below 400 is not counted
requestWasSuccessful(status) == status < 400

LimitMessage == "Trop de tentatives de connexion. Réessayez dans 15 minutes."

----------------------------------------------------------------------------
(* The API client of the page, public/app.js: class API *)

Answer(status, message, json) == [status |-> status, message |-> message, json |-> json]
NoResponse == Answer(0, "", FALSE)
\* fetch() rejected: no response at all
NetworkError == Answer(-1, "Failed to fetch", FALSE)

\* what a fetch of an /api route can bring back: the JSON answers of
\* server.js, a 204 without body, or no response
Answers ==
    { Answer(200, "", TRUE), Answer(204, "", FALSE),
      Answer(400, "Données invalides", TRUE),
      Answer(401, "Non authentifié", TRUE),
      Answer(403, "Token CSRF invalide", TRUE),
      Answer(403, "Accès administrateur requis", TRUE),
      Answer(404, "Produit non trouvé", TRUE),
      Answer(500, "Erreur serveur", TRUE),
      NetworkError }

\* what GET /api/csrf-token can bring back: a token, or a failure
TokenAnswers == { [ok |-> TRUE, token |-> 1], [ok |-> TRUE, token |-> 2],
                  [ok |-> FALSE, token |-> 0] }

\* GET /api/csrf-token fails: no response, a status that is not ok, or no token
TokenFailed == [ok |-> FALSE, token |-> 0]

\* the method option of a call ("": none given)
Methods == {"", "GET", "POST"}

\* response.ok
ok(r) == r.status >= 200 /\ r.status <= 299

\* faulty variant: every message passes
includesAny(message) == TRUE

\* errorData.message.includes('CSRF')
includesCSRF(message) == message \in {"Token CSRF invalide"}

\* API.initCSRF: the token is kept and csrfInitialized set; on a failure
\* another attempt is scheduled with setTimeout
initCSRF(a, ans) ==
    IF ans.ok
    THEN [a EXCEPT !.csrfToken = ans.token, !.csrfInitialized = TRUE]
    ELSE [a EXCEPT !.timers = @ + 1]

\* the X-CSRF-Token header is set when the page holds a token and the method
\* is not GET; `given` says whether an absent method counts
withHeader(a, given) ==
    IF a.csrfToken # 0 /\ a.method # "GET" /\ (given => a.method # "")
    THEN [a EXCEPT !.header = a.csrfToken]
    ELSE a

\* static csrfToken = null; static csrfInitialized = false; no call in progress
ApiLoaded ==
    [pc |-> "ready", method |-> "", csrfToken |-> 0, csrfInitialized |-> FALSE,
     header |-> 0, sent |-> 0, fetched |-> 0, refetched |-> 0, first |-> NoResponse,
     second |-> NoResponse, outcome |-> "none", result |-> NoResponse, timers |-> 0,
     running |-> 0]

----------------------------------------------------------------------------
(* Initial state: an empty store after initDatabase *)

AdminRow ==
    [email |-> AdminEmail, password |-> bcryptHash(AdminPassword),
     first_name |-> "Admin", last_name |-> "SneakZone",
     role |-> "admin", is_active |-> TRUE]

Init ==
    /\ users = (1 :> AdminRow)
    /\ userSeq = 1
    /\ products = [i \in 1..Len(SeedProducts) |-> [name |-> SeedProducts[i]]]
    /\ productSeq = Len(SeedProducts)
    /\ favorites = EmptyBag
    /\ cart_items = EmptyBag
    /\ sessions = [c \in Clients |-> NoSession]
    /\ secretSeq = 0
    /\ adds = <<>>
    /\ idle = [c \in Clients |-> 0]
    /\ api = ApiLoaded
    /\ limiter = LimiterStart
    /\ adding = [c \in Clients |-> NoCall]
    /\ uri = NoUri
    /\ updating = [c \in Clients |-> NoUpdate]
    /\ app = AppLoaded
    /\ toggling = [c \in Clients |-> NoCall]
    /\ last = Response("start", "c1", [token |-> NoToken], 0, "", NoBody)

----------------------------------------------------------------------------
(* Requests answered by a middleware *)

\* the EBADCSRFTOKEN error handler: 403; csurf has given the session a
\* secret when it had none
CsrfRejected(c, route, token) ==
    /\ idle' = sessionTouched(c)
    /\ UNCHANGED <<api, limiter, adding, uri, updating, app, toggling>>
    /\ canSecret(c)
    /\ ~csrfProtection(route, secretOf(c), token)
    /\ sessions' = withSecret(c)
    /\ secretSeq' = secretSeqAfter(c)
    /\ last' = Response(route, c, [token |-> token], 403, "Token CSRF invalide", NoBody)
    /\ UNCHANGED <<store, adds>>

\* authenticateToken answers 401
Unauthenticated(c, route, token) ==
    /\ idle' = sessionTouched(c)
    /\ UNCHANGED <<api, limiter, adding, uri, updating, app, toggling>>
    /\ route \in SessionRoutes
    /\ csrfProtection(route, sessions[c].csrfSecret, token)
    /\ authenticateToken(c).status # 200
    /\ last' = Response(route, c, [token |-> token], authenticateToken(c).status,
                        authenticateToken(c).message, NoBody)
    /\ UNCHANGED <<store, sessions, secretSeq, adds>>

\* requireAdmin answers 403
AdminRequired(c, route, token) ==
    /\ idle' = sessionTouched(c)
    /\ UNCHANGED <<api, limiter, adding, uri, updating, app, toggling>>
    /\ route \in AdminRoutes
    /\ csrfProtection(route, sessions[c].csrfSecret, token)
    /\ authenticateToken(c).status = 200
    /\ ~requireAdmin(authenticateToken(c).user)
    /\ last' = Response(route, c, [token |-> token], 403,
                        "Accès administrateur requis", NoBody)
    /\ UNCHANGED <<store, sessions, secretSeq, adds>>

----------------------------------------------------------------------------
(* GET /api/csrf-token *)

GetCsrfToken(c) ==
    /\ idle' = sessionTouched(c)
    /\ UNCHANGED <<api, limiter, adding, uri, updating, app, toggling>>
    /\ canSecret(c)
    /\ sessions' = withSecret(c)
    /\ secretSeq' = secretSeqAfter(c)
    /\ last' = Response("GET /api/csrf-token", c, [token |-> NoToken], 200, "",
                        [dbOps |-> 0, csrfToken |-> csrfToken(secretOf(c))])
    /\ UNCHANGED <<store, adds>>

(* GET /api/products *)

GetProducts(c) ==
    /\ idle' = sessionTouched(c)
    /\ UNCHANGED <<api, limiter, adding, uri, updating, app, toggling>>
    /\ last' = Response("GET /api/products", c, [token |-> NoToken], 200, "",
                        [dbOps |-> 1, products |-> DOMAIN products])
    /\ UNCHANGED <<store, sessions, secretSeq, adds>>

----------------------------------------------------------------------------
(* POST /api/auth/register *)

\* faulty variant: the role of the body is inserted
newUserRowFromBody(b) ==
    [email |-> normalizeEmail(b.email), password |-> bcryptHash(b.password),
     first_name |-> b.firstName, last_name |-> b.lastName,
     role |-> IF b.role = Absent THEN "user" ELSE b.role, is_active |-> TRUE]

\* INSERT INTO users (email, password, first_name, last_name): role and
\* is_active take the column defaults
newUserRow(b) ==
    [email |-> normalizeEmail(b.email), password |-> bcryptHash(b.password),
     first_name |-> b.firstName, last_name |-> b.lastName,
     role |-> "user", is_active |-> TRUE]

userView(id, row) ==
    [id |-> id, email |-> row.email, firstName |-> row.first_name,
     lastName |-> row.last_name, role |-> row.role]

\* faulty variant: the session is made anew at sign-in and loses its secret
bindSessionRegenerated(c, id) == [sessions EXCEPT ![c] = [userId |-> id, csrfSecret |-> 0]]

\* req.session.userId = id
bindSession(c, id) == [sessions EXCEPT ![c].userId = id]

Register(c, token, b) ==
    LET route == "POST /api/auth/register"
        req == [token |-> token, body |-> b]
        id == NextId(userSeq)
    IN
    /\ idle' = sessionTouched(c)
    /\ UNCHANGED <<api, limiter, adding, uri, updating, app, toggling>>
    /\ reaches(c, route, token)
    /\ IF ~registerValid(b)
       THEN /\ last' = Response(route, c, req, 400, "Données invalides", NoBody)
            /\ UNCHANGED <<store, sessions, secretSeq, adds>>
       ELSE IF userByEmail(normalizeEmail(b.email)) # 0
       THEN /\ last' = Response(route, c, req, 400,
                                "Un compte avec cet email existe déjà", [dbOps |-> 1])
            /\ UNCHANGED <<store, sessions, secretSeq, adds>>
       ELSE /\ id <= MaxUserId
            /\ Cardinality(DOMAIN users) < MaxUsers
            /\ users' = users @@ (id :> newUserRow(b))
            /\ userSeq' = id
            /\ sessions' = bindSession(c, id)
            /\ last' = Response(route, c, req, 200, "Compte créé avec succès",
                                [dbOps |-> 3, user |-> userView(id, newUserRow(b))])
            /\ UNCHANGED <<products, productSeq, favorites, cart_items, secretSeq, adds>>

(* POST /api/auth/login *)

GenericLoginMessage == "Email ou mot de passe incorrect"
DisabledMessage == "Compte désactivé"

\* the answers of the login handler's three early returns
loginNotFound == [status |-> 401, message |-> GenericLoginMessage]
loginDisabled == [status |-> 401, message |-> DisabledMessage]
\* faulty variant: a wrong password gets a message of its own
loginBadPasswordTold == [status |-> 401, message |-> "Mot de passe incorrect"]
loginBadPassword == [status |-> 401, message |-> GenericLoginMessage]

Login(c, token, email, password) ==
    LET route == "POST /api/auth/login"
        req == [token |-> token, email |-> email, password |-> password]
        uid == userByEmail(normalizeEmail(email))
    IN
    /\ idle' = sessionTouched(c)
    /\ UNCHANGED <<api, limiter, adding, uri, updating, app, toggling>>
    /\ reaches(c, route, token)
    /\ IF ~loginValid(email, password)
       THEN /\ last' = Response(route, c, req, 400, "Données invalides", NoBody)
            /\ UNCHANGED <<store, sessions, secretSeq, adds>>
       ELSE IF uid = 0
       THEN /\ last' = Response(route, c, req, loginNotFound.status,
                                loginNotFound.message, [dbOps |-> 1])
            /\ UNCHANGED <<store, sessions, secretSeq, adds>>
       ELSE IF ~users[uid].is_active
       THEN /\ last' = Response(route, c, req, loginDisabled.status,
                                loginDisabled.message, [dbOps |-> 1])
            /\ UNCHANGED <<store, sessions, secretSeq, adds>>
       ELSE IF ~bcryptCompare(password, users[uid].password)
       THEN /\ last' = Response(route, c, req, loginBadPassword.status,
                                loginBadPassword.message, [dbOps |-> 1])
            /\ UNCHANGED <<store, sessions, secretSeq, adds>>
       ELSE /\ sessions' = bindSession(c, uid)
            /\ last' = Response(route, c, req, 200, "Connexion réussie",
                                [dbOps |-> 1, user |-> userView(uid, users[uid])])
            /\ UNCHANGED <<store, secretSeq, adds>>

(* GET /api/auth/verify *)

VerifySession(c) ==
    LET route == "GET /api/auth/verify" IN
    /\ idle' = sessionTouched(c)
    /\ UNCHANGED <<api, limiter, adding, uri, updating, app, toggling>>
    /\ reaches(c, route, NoToken)
    /\ last' = Response(route, c, [token |-> NoToken], 200, "",
                        [dbOps |-> 0,
                         user |-> [id |-> authenticateToken(c).user,
                                   role |-> users[authenticateToken(c).user].role]])
    /\ UNCHANGED <<store, sessions, secretSeq, adds>>

(* POST /api/auth/logout *)

\* faulty variant: the session stays in the store
sessionKept(c) == sessions

\* req.session.destroy(): the session leaves the store; a later request with
\* its identifier gets a new, empty session
sessionDestroyed(c) == [sessions EXCEPT ![c] = NoSession]

Logout(c, token) ==
    LET route == "POST /api/auth/logout" IN
    /\ idle' = sessionTouched(c)
    /\ UNCHANGED <<api, limiter, adding, uri, updating, app, toggling>>
    /\ reaches(c, route, token)
    /\ sessions' = sessionDestroyed(c)
    /\ last' = Response(route, c, [token |-> token], 200, "Déconnexion réussie",
                        [dbOps |-> 0, user |-> sessions[c].userId])
    /\ UNCHANGED <<store, secretSeq, adds>>

----------------------------------------------------------------------------

(* GET /api/users/favorites *)

GetFavorites(c) ==
    LET route == "GET /api/users/favorites"
        u == authenticateToken(c).user
    IN
    /\ idle' = sessionTouched(c)
    /\ UNCHANGED <<api, limiter, adding, uri, updating, app, toggling>>
    /\ reaches(c, route, NoToken)
    /\ last' = Response(route, c, [token |-> NoToken], 200, "",
                        [dbOps |-> 1,
                         favorites |-> {r \in BagToSet(favorites) :
                                          r.user_id = u /\ r.product_id \in DOMAIN products}])
    /\ UNCHANGED <<store, sessions, secretSeq, adds>>

(* POST /api/users/favorites/:productName *)

\* faulty variant: the row found is not deleted
favoriteKept(u, p) == favorites

\* DELETE FROM favorites WHERE id = ?  (the row found for the pair)
favoriteDeleted(u, p) == favorites (-) One(Fav(u, p))
\* INSERT INTO favorites (user_id, product_id)
favoriteInserted(u, p) == favorites (+) One(Fav(u, p))

\* the row a toggle has selected is deleted: its id is never given again
\* (AUTOINCREMENT), so the DELETE ... WHERE id = ? of that toggle finds no row
favoriteGone(u, p) ==
    [c \in Clients |->
        IF toggling[c].user = u /\ toggling[c].product = p /\ toggling[c].existing
        THEN [toggling[c] EXCEPT !.gone = TRUE]
        ELSE toggling[c]]

ToggleFavorite(c, token, name) ==
    LET route == "POST /api/users/favorites/:productName"
        req == [token |-> token, name |-> name]
        u == authenticateToken(c).user
        p == productByName(name)
    IN
    /\ idle' = sessionTouched(c)
    /\ UNCHANGED <<api, limiter, adding, uri, updating, app>>
    /\ reaches(c, route, token)
    /\ IF p = 0
       THEN /\ last' = Response(route, c, req, 404, "Produit non trouvé", [dbOps |-> 1])
            /\ UNCHANGED <<store, sessions, secretSeq, adds, toggling>>
       ELSE IF favCount(favorites, u, p) > 0
       THEN /\ favorites' = favoriteDeleted(u, p)
            /\ toggling' = favoriteGone(u, p)
            /\ last' = Response(route, c, req, 200, "Produit retiré des favoris",
                                [dbOps |-> 3, user |-> u, product |-> p, isFavorite |-> FALSE])
            /\ UNCHANGED <<users, userSeq, products, productSeq, cart_items,
                           sessions, secretSeq, adds>>
       ELSE /\ favorites' = favoriteInserted(u, p)
            /\ last' = Response(route, c, req, 200, "Produit ajouté aux favoris",
                                [dbOps |-> 3, user |-> u, product |-> p, isFavorite |-> TRUE])
            /\ UNCHANGED <<users, userSeq, products, productSeq, cart_items,
                           sessions, secretSeq, adds, toggling>>

(* POST /api/users/favorites/:productName in two steps, other requests between
   them: the awaits up to the SELECT of the existing row, then the write and
   the response.  ToggleFavorite is the two steps with nothing between them. *)

ToggleFavoriteRead(c, token, name) ==
    LET route == "POST /api/users/favorites/:productName"
        u == authenticateToken(c).user
        p == productByName(name)
    IN
    /\ toggling[c] = NoCall
    /\ reaches(c, route, token)
    /\ p # 0
    /\ toggling' = [toggling EXCEPT ![c] = [user |-> u, product |-> p,
                                            req |-> [token |-> token, name |-> name],
                                            existing |-> favCount(favorites, u, p) > 0,
                                            gone |-> FALSE]]
    /\ UNCHANGED <<store, sessions, secretSeq, adds, idle, api, limiter, adding, uri, updating, app, last>>

ToggleFavoriteWrite(c) ==
    LET route == "POST /api/users/favorites/:productName"
        a == toggling[c]
        u == a.user
        p == a.product
        answer(isFavorite) ==
            Response(route, c, a.req, 200,
                     IF isFavorite THEN "Produit ajouté aux favoris"
                     ELSE "Produit retiré des favoris",
                     [dbOps |-> 3, user |-> u, product |-> p, isFavorite |-> isFavorite])
    IN
    /\ a # NoCall
    /\ idle' = sessionTouched(c)
    /\ UNCHANGED <<users, userSeq, products, productSeq, cart_items, sessions,
                   secretSeq, adds, api, limiter, adding, uri, updating, app>>
    /\ IF a.existing
       THEN /\ last' = answer(FALSE)
            /\ IF a.gone \/ favCount(favorites, u, p) = 0
               THEN \* the DELETE finds no row
                    /\ favorites' = favorites
                    /\ toggling' = [toggling EXCEPT ![c] = NoCall]
               ELSE /\ favorites' = favoriteDeleted(u, p)
                    /\ toggling' = [favoriteGone(u, p) EXCEPT ![c] = NoCall]
       ELSE /\ toggling' = [toggling EXCEPT ![c] = NoCall]
            /\ IF insertRefused(favCount(favorites, u, p))
               THEN \* UNIQUE constraint failed: favorites.user_id, favorites.product_id
                    /\ last' = Response(route, c, a.req, 500, "Erreur gestion favoris",
                                        [dbOps |-> 3, user |-> u, product |-> p])
                    /\ favorites' = favorites
               ELSE /\ last' = answer(TRUE)
                    /\ favorites' = favoriteInserted(u, p)

(* GET /api/users/cart *)

GetCart(c) ==
    LET route == "GET /api/users/cart"
        u == authenticateToken(c).user
    IN
    /\ idle' = sessionTouched(c)
    /\ UNCHANGED <<api, limiter, adding, uri, updating, app, toggling>>
    /\ reaches(c, route, NoToken)
    /\ last' = Response(route, c, [token |-> NoToken], 200, "",
                        [dbOps |-> 1,
                         cartItems |-> {r \in BagToSet(cart_items) :
                                          r.user_id = u /\ r.product_id \in DOMAIN products}])
    /\ UNCHANGED <<store, sessions, secretSeq, adds>>

(* POST /api/users/cart/:productName *)

\* faulty variant: the quantity of the row found is not raised
quantityKept(r) == cart_items

\* UPDATE cart_items SET quantity = quantity + 1 WHERE id = ?
quantityRaised(r) == (cart_items (-) One(r)) (+) One(Item(r.user_id, r.product_id, r.quantity + 1))
\* faulty variant: the row is inserted with quantity 0
itemInsertedEmpty(u, p) == cart_items (+) One(Item(u, p, 0))
\* INSERT INTO cart_items (user_id, product_id, quantity) VALUES (?, ?, 1)
itemInserted(u, p) == cart_items (+) One(Item(u, p, 1))
\* faulty variant: the rows of the product are deleted for every user
itemsDeletedAnyUser(u, p) ==
    [r \in {x \in BagToSet(cart_items) : x.product_id # p} |-> cart_items[r]]

\* DELETE FROM cart_items WHERE user_id = ? AND product_id = ?
itemsDeleted(u, p) ==
    [r \in BagToSet(cart_items) \ cartRows(cart_items, u, p) |-> cart_items[r]]

addsOf(u, p) == IF <<u, p>> \in DOMAIN adds THEN adds[<<u, p>>] ELSE 0

\* the row an add has selected is deleted: its id is never given again
\* (AUTOINCREMENT), so the UPDATE ... WHERE id = ? of that add finds no row
rowGone(u, p) ==
    [c \in Clients |->
        IF adding[c].user = u /\ adding[c].product = p /\ adding[c].existing
        THEN [adding[c] EXCEPT !.gone = TRUE]
        ELSE adding[c]]

AddToCart(c, token, name) ==
    LET route == "POST /api/users/cart/:productName"
        req == [token |-> token, name |-> name]
        u == authenticateToken(c).user
        p == productByName(name)
        found == cartRows(cart_items, u, p)
    IN
    /\ idle' = sessionTouched(c)
    /\ UNCHANGED <<api, limiter, adding, uri, updating, app, toggling>>
    /\ reaches(c, route, token)
    /\ IF p = 0
       THEN /\ last' = Response(route, c, req, 404, "Produit non trouvé", [dbOps |-> 1])
            /\ UNCHANGED <<store, sessions, secretSeq, adds>>
       ELSE /\ \A r \in found : r.quantity < MaxQty
            /\ cart_items' = IF found # {}
                             THEN quantityRaised(CHOOSE r \in found : TRUE)
                             ELSE itemInserted(u, p)
            /\ adds' = (<<u, p>> :> (addsOf(u, p) + 1)) @@ adds
            /\ last' = Response(route, c, req, 200, "Produit ajouté au panier",
                                [dbOps |-> 3, user |-> u, product |-> p])
            /\ UNCHANGED <<users, userSeq, products, productSeq, favorites,
                           sessions, secretSeq>>

(* POST /api/users/cart/:productName in two steps, other requests between
   them: the awaits up to the SELECT of the existing row, then the write and
   the response.  AddToCart is the two steps with nothing between them. *)

AddToCartRead(c, token, name) ==
    LET route == "POST /api/users/cart/:productName"
        u == authenticateToken(c).user
        p == productByName(name)
    IN
    /\ adding[c] = NoCall
    /\ reaches(c, route, token)
    /\ p # 0
    /\ adding' = [adding EXCEPT ![c] = [user |-> u, product |-> p,
                                        req |-> [token |-> token, name |-> name],
                                        existing |-> cartRows(cart_items, u, p) # {},
                                        gone |-> FALSE]]
    /\ UNCHANGED <<store, sessions, secretSeq, adds, idle, api, limiter, uri, updating, app, toggling, last>>

AddToCartWrite(c) ==
    LET route == "POST /api/users/cart/:productName"
        a == adding[c]
        u == a.user
        p == a.product
        found == cartRows(cart_items, u, p)
        done == Response(route, c, a.req, 200, "Produit ajouté au panier",
                         [dbOps |-> 3, user |-> u, product |-> p])
    IN
    /\ a # NoCall
    /\ idle' = sessionTouched(c)
    /\ adding' = [adding EXCEPT ![c] = NoCall]
    /\ UNCHANGED <<users, userSeq, products, productSeq, favorites, sessions,
                   secretSeq, api, limiter, uri, updating, app, toggling>>
    /\ IF a.existing
       THEN IF a.gone \/ found = {}
            THEN \* the UPDATE changes no row
                 /\ last' = done
                 /\ UNCHANGED <<cart_items, adds>>
            ELSE /\ \A r \in found : r.quantity < MaxQty
                 /\ cart_items' = quantityRaised(CHOOSE r \in found : TRUE)
                 /\ adds' = (<<u, p>> :> (addsOf(u, p) + 1)) @@ adds
                 /\ last' = done
       ELSE IF insertRefused(cartCount(cart_items, u, p))
            THEN \* UNIQUE constraint failed: cart_items.user_id, cart_items.product_id
                 /\ last' = Response(route, c, a.req, 500, "Erreur ajout panier",
                                     [dbOps |-> 3, user |-> u, product |-> p])
                 /\ UNCHANGED <<cart_items, adds>>
            ELSE /\ cart_items' = itemInserted(u, p)
                 /\ adds' = (<<u, p>> :> (addsOf(u, p) + 1)) @@ adds
                 /\ last' = done

(* DELETE /api/users/cart/:productName *)

RemoveFromCart(c, token, name) ==
    LET route == "DELETE /api/users/cart/:productName"
        req == [token |-> token, name |-> name]
        u == authenticateToken(c).user
        p == productByName(name)
    IN
    /\ idle' = sessionTouched(c)
    /\ UNCHANGED <<api, limiter, uri, updating, app, toggling>>
    /\ reaches(c, route, token)
    /\ IF p = 0
       THEN /\ last' = Response(route, c, req, 404, "Produit non trouvé", [dbOps |-> 1])
            /\ UNCHANGED <<store, sessions, secretSeq, adds, adding>>
       ELSE /\ cart_items' = itemsDeleted(u, p)
            /\ adding' = rowGone(u, p)
            /\ adds' = [q \in DOMAIN adds \ {<<u, p>>} |-> adds[q]]
            /\ last' = Response(route, c, req, 200, "Produit retiré du panier",
                                [dbOps |-> 2, user |-> u, product |-> p])
            /\ UNCHANGED <<users, userSeq, products, productSeq, favorites,
                           sessions, secretSeq>>

----------------------------------------------------------------------------
(* Admin routes: the answer is res.json(result), status 200, whatever
   AdminFunctions returns *)

(* GET /api/admin/users *)
AdminGetUsers(c) ==
    LET route == "GET /api/admin/users" IN
    /\ idle' = sessionTouched(c)
    /\ UNCHANGED <<api, limiter, adding, uri, updating, app, toggling>>
    /\ reaches(c, route, NoToken)
    /\ last' = Response(route, c, [token |-> NoToken], 200, "",
                        [dbOps |-> 1, success |-> TRUE, users |-> DOMAIN users])
    /\ UNCHANGED <<store, sessions, secretSeq, adds>>

\* AdminFunctions.getStats
getStats ==
    LET totalUsers == Cardinality(DOMAIN users)
        totalAdmins == Cardinality({i \in DOMAIN users : users[i].role = "admin"})
    IN  [totalUsers |-> totalUsers,
         totalAdmins |-> totalAdmins,
         activeUsers |-> Cardinality({i \in DOMAIN users : users[i].is_active}),
         totalProducts |-> Cardinality(DOMAIN products),
         totalRegularUsers |-> totalUsers - totalAdmins]

(* GET /api/admin/stats *)
AdminGetStats(c) ==
    LET route == "GET /api/admin/stats" IN
    /\ idle' = sessionTouched(c)
    /\ UNCHANGED <<api, limiter, adding, uri, updating, app, toggling>>
    /\ reaches(c, route, NoToken)
    /\ last' = Response(route, c, [token |-> NoToken], 200, "",
                        [dbOps |-> 4, success |-> TRUE, stats |-> getStats])
    /\ UNCHANGED <<store, sessions, secretSeq, adds>>

(* GET /api/admin/products *)
AdminGetProducts(c) ==
    LET route == "GET /api/admin/products" IN
    /\ idle' = sessionTouched(c)
    /\ UNCHANGED <<api, limiter, adding, uri, updating, app, toggling>>
    /\ reaches(c, route, NoToken)
    /\ last' = Response(route, c, [token |-> NoToken], 200, "",
                        [dbOps |-> 1, success |-> TRUE, products |-> DOMAIN products])
    /\ UNCHANGED <<store, sessions, secretSeq, adds>>

\* the guard of the PUT and DELETE handlers: parseInt(userId) === req.user.id
isOwnAccount(path, uid) == parseInt(path) = uid

\* faulty variant: any role given is taken
validRoleAny(b) == b.role # Absent

\* AdminFunctions.updateUser: the whitelisted fields of the body
validRole(b) == b.role \in {"user", "admin"}
validActive(b) == b.is_active \in {"true", "false"}

\* faulty variant: the role is not written
userUpdatedActiveOnly(path, b) ==
    LET id == sqliteRowid(path) IN
    IF id \notin DOMAIN users THEN users
    ELSE [users EXCEPT ![id] =
            [@ EXCEPT !.is_active = IF validActive(b) THEN b.is_active = "true" ELSE @]]

\* UPDATE users SET ... WHERE id = ?
userUpdated(path, b) ==
    LET id == sqliteRowid(path) IN
    IF id \notin DOMAIN users THEN users
    ELSE [users EXCEPT ![id] =
            [@ EXCEPT !.role = IF validRole(b) THEN b.role ELSE @,
                      !.is_active = IF validActive(b) THEN b.is_active = "true" ELSE @]]

(* PUT /api/admin/users/:userId *)
AdminUpdateUser(c, token, path, b) ==
    LET route == "PUT /api/admin/users/:userId"
        req == [token |-> token, path |-> path, body |-> b]
        me == authenticateToken(c).user
    IN
    /\ idle' = sessionTouched(c)
    /\ UNCHANGED <<api, limiter, adding, uri, updating, app, toggling>>
    /\ reaches(c, route, token)
    /\ IF isOwnAccount(path, me)
       THEN /\ last' = Response(route, c, req, 400,
                                "Impossible de modifier son propre compte", NoBody)
            /\ UNCHANGED <<store, sessions, secretSeq, adds>>
       ELSE IF ~validRole(b) /\ ~validActive(b)
       THEN /\ last' = Response(route, c, req, 200, "Aucune modification valide",
                                [dbOps |-> 0, success |-> FALSE])
            /\ UNCHANGED <<store, sessions, secretSeq, adds>>
       ELSE /\ users' = userUpdated(path, b)
            /\ last' = Response(route, c, req, 200, "Utilisateur modifié avec succès",
                                [dbOps |-> 1, success |-> TRUE])
            /\ UNCHANGED <<userSeq, products, productSeq, favorites, cart_items,
                           sessions, secretSeq, adds>>

\* DELETE FROM users WHERE id = ?
userDeleted(path) == [i \in DOMAIN users \ {sqliteRowid(path)} |-> users[i]]

(* DELETE /api/admin/users/:userId *)
AdminDeleteUser(c, token, path) ==
    LET route == "DELETE /api/admin/users/:userId"
        req == [token |-> token, path |-> path]
        me == authenticateToken(c).user
    IN
    /\ idle' = sessionTouched(c)
    /\ UNCHANGED <<api, limiter, adding, uri, updating, app, toggling>>
    /\ reaches(c, route, token)
    /\ IF isOwnAccount(path, me)
       THEN /\ last' = Response(route, c, req, 400,
                                "Impossible de supprimer son propre compte", NoBody)
            /\ UNCHANGED <<store, sessions, secretSeq, adds>>
       ELSE /\ users' = userDeleted(path)
            /\ favorites' = favoritesAfterDelete(sqliteRowid(path))
            /\ cart_items' = cartAfterDelete(sqliteRowid(path))
            /\ last' = Response(route, c, req, 200, "Utilisateur supprimé avec succès",
                                [dbOps |-> 1, success |-> TRUE])
            /\ UNCHANGED <<userSeq, products, productSeq, sessions, secretSeq, adds>>

(* PUT and DELETE /api/admin/users/:userId in two steps, other requests
   between them: authenticateToken up to its SELECT of the user row, then
   requireAdmin on that row, the handler and the response.  AdminUpdateUser
   and AdminDeleteUser are the two steps with nothing between them. *)

AdminUserAuth(c, token, route, path, b) ==
    LET me == authenticateToken(c).user IN
    /\ updating[c] = NoUpdate
    /\ route \in {"PUT /api/admin/users/:userId", "DELETE /api/admin/users/:userId"}
    /\ csrfProtection(route, sessions[c].csrfSecret, token)
    /\ authenticateToken(c).status = 200
    /\ updating' = [updating EXCEPT ![c] =
                       [route |-> route, me |-> me, role |-> users[me].role,
                        req |-> [token |-> token, path |-> path, body |-> b]]]
    /\ UNCHANGED <<store, sessions, secretSeq, adds, idle, api, limiter, adding, uri, toggling,
                   app, last>>

AdminUserWrite(c) ==
    LET a == updating[c]
        path == a.req.path
        b == a.req.body
        put == a.route = "PUT /api/admin/users/:userId"
    IN
    /\ a # NoUpdate
    /\ idle' = sessionTouched(c)
    /\ updating' = [updating EXCEPT ![c] = NoUpdate]
    /\ UNCHANGED <<userSeq, products, productSeq, sessions, secretSeq, adds, api, limiter, uri,
                   adding, toggling, app>>
    /\ IF a.role # "admin"
       THEN /\ last' = Response(a.route, c, a.req, 403, "Accès administrateur requis", NoBody)
            /\ UNCHANGED <<users, favorites, cart_items>>
       ELSE IF isOwnAccount(path, a.me)
       THEN /\ last' = Response(a.route, c, a.req, 400,
                                IF put THEN "Impossible de modifier son propre compte"
                                ELSE "Impossible de supprimer son propre compte", NoBody)
            /\ UNCHANGED <<users, favorites, cart_items>>
       ELSE IF put /\ ~validRole(b) /\ ~validActive(b)
       THEN /\ last' = Response(a.route, c, a.req, 200, "Aucune modification valide",
                                [dbOps |-> 0, success |-> FALSE])
            /\ UNCHANGED <<users, favorites, cart_items>>
       ELSE IF put
       THEN /\ users' = userUpdated(path, b)
            /\ last' = Response(a.route, c, a.req, 200, "Utilisateur modifié avec succès",
                                [dbOps |-> 1, success |-> TRUE])
            /\ UNCHANGED <<favorites, cart_items>>
       ELSE /\ users' = userDeleted(path)
            /\ favorites' = favoritesAfterDelete(sqliteRowid(path))
            /\ cart_items' = cartAfterDelete(sqliteRowid(path))
            /\ last' = Response(a.route, c, a.req, 200, "Utilisateur supprimé avec succès",
                                [dbOps |-> 1, success |-> TRUE])

(* POST /api/admin/products *)
AdminAddProduct(c, token, name) ==
    LET route == "POST /api/admin/products"
        req == [token |-> token, name |-> name]
        id == NextId(productSeq)
    IN
    /\ idle' = sessionTouched(c)
    /\ UNCHANGED <<api, limiter, adding, uri, updating, app, toggling>>
    /\ reaches(c, route, token)
    /\ IF name = Absent
       THEN \* NOT NULL constraint failed: products.name
            /\ last' = Response(route, c, req, 200, "Erreur ajout produit",
                                [dbOps |-> 1, success |-> FALSE])
            /\ UNCHANGED <<store, sessions, secretSeq, adds>>
       ELSE /\ id <= MaxProducts
            /\ products' = products @@ (id :> [name |-> name])
            /\ productSeq' = id
            /\ last' = Response(route, c, req, 200, "Produit ajouté avec succès",
                                [dbOps |-> 1, success |-> TRUE])
            /\ UNCHANGED <<users, userSeq, favorites, cart_items, sessions, secretSeq, adds>>

----------------------------------------------------------------------------
(* startServer on the store of an earlier run: initDatabase runs its INSERT
   OR IGNORE statements again.  The sessions and the limiter's hits were in
   the memory of the process that ended, with the requests it was serving. *)

\* INSERT OR IGNORE INTO users: ignored when the e-mail has a row (UNIQUE)
adminSeeded ==
    IF userByEmail(AdminEmail) # 0 THEN users
    ELSE users @@ (NextId(userSeq) :> AdminRow)

\* INSERT OR IGNORE INTO products, one per seed product: products has no
\* UNIQUE column but the id, so no insert is ignored
productsSeeded ==
    products @@ [i \in (productSeq + 1)..(productSeq + Len(SeedProducts)) |->
                    [name |-> SeedProducts[i - productSeq]]]

StartServer ==
    /\ productSeq < Len(SeedProducts) * (MaxStarts + 1)
    /\ userByEmail(AdminEmail) = 0 =>
          (NextId(userSeq) <= MaxUserId /\ Cardinality(DOMAIN users) < MaxUsers)
    /\ users' = adminSeeded
    /\ userSeq' = IF userByEmail(AdminEmail) # 0 THEN userSeq ELSE NextId(userSeq)
    /\ products' = productsSeeded
    /\ productSeq' = productSeq + Len(SeedProducts)
    /\ sessions' = [c \in Clients |-> NoSession]
    /\ idle' = [c \in Clients |-> 0]
    /\ limiter' = LimiterStart
    /\ adding' = [c \in Clients |-> NoCall]
    /\ toggling' = [c \in Clients |-> NoCall]
    /\ updating' = [c \in Clients |-> NoUpdate]
    /\ UNCHANGED <<favorites, cart_items, secretSeq, adds, api, app, uri, last>>

----------------------------------------------------------------------------
(* Time passes: TickMinutes minutes without a request.  A session that has
   reached its expiry is gone: the store drops it at the next lookup and the
   browser drops its cookie. *)

Tick ==
    LET minutes(c) == idle[c] + TickMinutes
        gone(c) == sessions[c] = NoSession \/ expired(c, minutes(c))
    IN
    /\ \E c \in Clients : sessions[c] # NoSession
    /\ sessions' = [c \in Clients |-> IF gone(c) THEN NoSession ELSE sessions[c]]
    /\ idle' = [c \in Clients |-> IF gone(c) THEN 0 ELSE minutes(c)]
    /\ UNCHANGED <<store, secretSeq, adds, api, limiter, adding, uri, updating, app, toggling, last>>

----------------------------------------------------------------------------
(* authLimiter in front of login and register.  A request passes in three
   steps: the limiter counts it and lets it through (or answers 429), the
   rest of the chain answers it (CsrfRejected, Login, Register), and when the
   response is finished the limiter takes a successful request off the
   count.  The handler steps taken alone are the requests let through. *)

\* the hit is counted and is within max: next()
AuthLimiterAdmit(c, route, email) ==
    LET k == keyGenerator(c, email) IN
    /\ limiter.inflight = NoRequest
    /\ countOf(limiter.hits, k) < authMax
    /\ countOf(limiter.through, k) < authMax + MaxBeyond
    /\ limiter' = [limiter EXCEPT !.hits = raised(@, k),
                                  !.through = raised(@, k),
                                  !.inflight = [client |-> c, route |-> route, key |-> k]]
    /\ last' = Response(route, c, [token |-> NoToken, email |-> email], 0, "", NoBody)
    /\ UNCHANGED <<store, sessions, secretSeq, adds, idle, api, adding, uri, updating, app, toggling>>

\* the hit is counted and is over max: 429
AuthLimiterReject(c, route, email) ==
    LET k == keyGenerator(c, email) IN
    /\ limiter.inflight = NoRequest
    /\ countOf(limiter.hits, k) >= authMax
    /\ countOf(limiter.hits, k) < authMax + MaxBeyond
    /\ limiter' = [limiter EXCEPT !.hits = raised(@, k)]
    /\ last' = Response(route, c, [token |-> NoToken, email |-> email], 429,
                        LimitMessage, NoBody)
    /\ UNCHANGED <<store, sessions, secretSeq, adds, idle, api, adding, uri, updating, app, toggling>>

\* the request let through has not been answered yet
Pending == limiter.inflight # NoRequest /\ last.status = 0

\* response 'finish': a successful request is taken off the count
AuthLimiterFinish ==
    LET k == limiter.inflight.key IN
    /\ limiter.inflight # NoRequest
    /\ last.status # 0
    /\ limiter' = [limiter EXCEPT
                      !.inflight = NoRequest,
                      !.hits = IF requestWasSuccessful(last.status) THEN lowered(@, k) ELSE @,
                      !.failed = IF last.status >= 400 THEN raised(@, k) ELSE @]
    /\ UNCHANGED <<store, sessions, secretSeq, adds, idle, api, adding, uri, updating, app, toggling, last>>

\* windowMs have passed: the hits are forgotten
WindowReset ==
    /\ limiter.inflight = NoRequest
    /\ limiter # LimiterStart
    /\ limiter' = LimiterStart
    /\ UNCHANGED <<store, sessions, secretSeq, adds, idle, api, adding, uri, updating, app, toggling, last>>

\* attempts of one browser: the administrator's e-mail with the right and a
\* wrong password, and a registration sent again and again
Attempts ==
    { <<"POST /api/auth/login", AdminEmail>>,
      <<"POST /api/auth/register", "jane@example.com">> }

NextLimiter ==
    \/ limiter.inflight = NoRequest /\ GetCsrfToken("c1")
    \/ \E a \in Attempts : AuthLimiterAdmit("c1", a[1], a[2])
    \/ \E a \in Attempts : AuthLimiterReject("c1", a[1], a[2])
    \/ Pending /\ CsrfRejected("c1", limiter.inflight.route, NoToken)
    \/ /\ Pending
       /\ limiter.inflight.route = "POST /api/auth/login"
       /\ \E t \in Tokens, p \in {AdminPassword, "password1"} :
             Login("c1", t, limiter.inflight.key[2], p)
    \/ /\ Pending
       /\ limiter.inflight.route = "POST /api/auth/register"
       /\ \E t \in Tokens :
             Register("c1", t, Body(limiter.inflight.key[2], "password1", "Jane", "Doe", Absent))
    \/ AuthLimiterFinish
    \/ WindowReset

SpecLimiter == Init /\ [][NextLimiter]_vars

----------------------------------------------------------------------------
(* Cart requests of one account from two browsers, the adds in two steps *)

NextCart ==
    \/ \E c \in Clients : GetCsrfToken(c)
    \/ \E c \in Clients, t \in Tokens : Login(c, t, AdminEmail, AdminPassword)
    \/ \E c \in Clients, t \in Tokens, n \in ReqNames : AddToCart(c, t, n)
    \/ \E c \in Clients, t \in Tokens, n \in ReqNames : AddToCartRead(c, t, n)
    \/ \E c \in Clients : AddToCartWrite(c)
    \/ \E c \in Clients, t \in Tokens, n \in ReqNames : RemoveFromCart(c, t, n)

SpecCart == Init /\ [][NextCart]_vars

\* the same with the favorites toggles, whole and in two steps
NextRace ==
    \/ NextCart
    \/ \E c \in Clients, t \in Tokens, n \in ReqNames : ToggleFavorite(c, t, n)
    \/ \E c \in Clients, t \in Tokens, n \in ReqNames : ToggleFavoriteRead(c, t, n)
    \/ \E c \in Clients : ToggleFavoriteWrite(c)

SpecRace == Init /\ [][NextRace]_vars

----------------------------------------------------------------------------
(* App and Auth of public/app.js in the browser c1.  An operation sends its
   request, the server answers it with the handler's step, and the operation
   goes on with the response. *)

\* the request is sent and not answered yet
sent(route, req) == Response(route, "c1", req, 0, "", NoBody)

Waiting(op) == app.call.op = op /\ last.status = 0

call(op, name) == [app EXCEPT !.call = [op |-> op, name |-> name]]

\* handleLogin: Auth.login
AppLogin ==
    /\ app.call = NoAppCall
    /\ app.user = 0
    /\ app' = call("login", "")
    /\ last' = sent("POST /api/auth/login", [token |-> NoToken])
    /\ UNCHANGED <<store, sessions, secretSeq, adds, idle, api, limiter, adding, uri, updating, toggling>>

\* App.loadUserData, its first request
AppLoadUserData ==
    /\ app.call = NoAppCall
    /\ app.user # 0
    /\ app' = call("getFavorites", "")
    /\ last' = sent("GET /api/users/favorites", [token |-> NoToken])
    /\ UNCHANGED <<store, sessions, secretSeq, adds, idle, api, limiter, adding, uri, updating, toggling>>

\* App.toggleFavorite, App.addToCart and App.removeFromCart up to the request
AppRequest(op, route, name) ==
    /\ app.call = NoAppCall
    /\ app.user # 0
    /\ app' = call(op, name)
    /\ last' = sent(route, [token |-> NoToken, name |-> name])
    /\ UNCHANGED <<store, sessions, secretSeq, adds, idle, api, limiter, adding, uri, updating, toggling>>

AppToggleFavorite(name) ==
    AppRequest("toggleFavorite", "POST /api/users/favorites/:productName", name)
AppAddToCart(name) ==
    AppRequest("addToCart", "POST /api/users/cart/:productName", name)
AppRemoveFromCart(name) ==
    AppRequest("removeFromCart", "DELETE /api/users/cart/:productName", name)

\* existingItem.quantity += 1, or this.cart.set(name, {..., quantity: 1})
cartAdded(cart, name) ==
    (name :> (IF name \in DOMAIN cart THEN cart[name] + 1 ELSE 1)) @@ cart

\* Map.delete
cartDeleted(cart, name) == [n \in DOMAIN cart \ {name} |-> cart[n]]

\* favoritesResponse.favorites.forEach(fav => this.favorites.set(fav.name, ...))
favoriteNames(rows) == {products[r.product_id].name : r \in rows}

\* cartResponse.cartItems.forEach(item => this.cart.set(item.name, ...))
cartEntries(rows) ==
    [n \in {products[r.product_id].name : r \in rows} |->
        LET r == CHOOSE x \in rows : products[x.product_id].name = n IN r.quantity]

\* the operation goes on after its await.  API.request throws on a status
\* that is not ok, and the operation's catch ends it.
AppAnswered ==
    LET op == app.call.op
        name == app.call.name
        success == last.status = 200
        done == [app EXCEPT !.call = NoAppCall]
    IN
    /\ app.call # NoAppCall
    /\ last.status # 0
    /\ UNCHANGED <<store, sessions, secretSeq, adds, idle, api, limiter, adding, uri, updating, toggling>>
    /\ CASE op = "login" ->
              IF success
              THEN /\ app' = [app EXCEPT !.user = last.body.user.id, !.loaded = FALSE,
                                         !.call = [op |-> "getFavorites", name |-> ""]]
                   /\ last' = sent("GET /api/users/favorites", [token |-> NoToken])
              ELSE /\ app' = done
                   /\ last' = last
         [] op = "getFavorites" ->
              IF success
              THEN /\ app' = [app EXCEPT !.favorites = favoriteNames(last.body.favorites),
                                         !.call = [op |-> "getCart", name |-> ""]]
                   /\ last' = sent("GET /api/users/cart", [token |-> NoToken])
              ELSE /\ app' = [done EXCEPT !.favorites = {}]
                   /\ last' = last
         [] op = "getCart" ->
              /\ app' = IF success
                        THEN [done EXCEPT !.cart = cartEntries(last.body.cartItems),
                                          !.loaded = TRUE]
                        ELSE [done EXCEPT !.cart = <<>>]
              /\ last' = last
         [] op = "toggleFavorite" ->
              /\ app' = IF ~success THEN done
                        ELSE IF last.body.isFavorite
                        THEN [done EXCEPT !.favorites = @ \cup {name}]
                        ELSE [done EXCEPT !.favorites = @ \ {name}]
              /\ last' = last
         [] op = "addToCart" ->
              /\ app' = IF success THEN [done EXCEPT !.cart = cartAdded(@, name)] ELSE done
              /\ last' = last
         [] op = "removeFromCart" ->
              /\ app' = IF success THEN [done EXCEPT !.cart = cartDeleted(@, name)] ELSE done
              /\ last' = last

\* App.checkout: clearCart()
AppCheckout ==
    /\ app.call = NoAppCall
    /\ app.user # 0
    /\ DOMAIN app.cart # {}
    /\ app' = [app EXCEPT !.cart = <<>>]
    /\ UNCHANGED <<server, api>>

NextApp ==
    \/ app.call = NoAppCall /\ GetCsrfToken("c1")
    \/ AppLogin
    \/ Waiting("login") /\ \E t \in Tokens : Login("c1", t, AdminEmail, AdminPassword)
    \/ AppLoadUserData
    \/ Waiting("getFavorites") /\ GetFavorites("c1")
    \/ Waiting("getCart") /\ GetCart("c1")
    \/ \E n \in AppNames : AppToggleFavorite(n)
    \/ Waiting("toggleFavorite") /\ \E t \in Tokens : ToggleFavorite("c1", t, app.call.name)
    \/ \E n \in AppNames : AppAddToCart(n)
    \/ Waiting("addToCart") /\ \E t \in Tokens : AddToCart("c1", t, app.call.name)
    \/ \E n \in AppNames : AppRemoveFromCart(n)
    \/ Waiting("removeFromCart") /\ \E t \in Tokens : RemoveFromCart("c1", t, app.call.name)
    \/ AppAnswered
    \/ AppCheckout

SpecApp == Init /\ [][NextApp]_vars

----------------------------------------------------------------------------
(* API.request of public/app.js, one step per await *)

\* the call starts: initCSRF first when no token was fetched yet
ApiRequest(method) ==
    /\ api.pc \in {"ready", "done"}
    /\ api' = [ApiLoaded EXCEPT
                  !.csrfToken = api.csrfToken,
                  !.csrfInitialized = api.csrfInitialized,
                  !.timers = api.timers,
                  !.running = api.running,
                  !.method = method,
                  !.pc = IF api.csrfInitialized THEN "fetch" ELSE "init"]
    /\ UNCHANGED <<server, app>>

\* await this.initCSRF() before the request
ApiInit(ans) ==
    /\ api.pc = "init"
    /\ ~ans.ok => api.timers < MaxTimers
    /\ api' = [initCSRF(api, ans) EXCEPT !.fetched = @ + 1, !.pc = "fetch"]
    /\ UNCHANGED <<server, app>>

\* what the call does with the first response
afterFirst(a, r) ==
    IF r = NetworkError
    THEN [a EXCEPT !.outcome = "thrown", !.pc = "done"]
    ELSE IF r.status = 403 /\ ~r.json
    THEN [a EXCEPT !.outcome = "thrown", !.pc = "done"]
    ELSE IF r.status = 403 /\ includesCSRF(r.message)
    THEN [a EXCEPT !.csrfInitialized = FALSE, !.pc = "refetch"]
    ELSE IF r.status = 403
    THEN \* the body was read already: response.json() rejects
         [a EXCEPT !.outcome = "thrown", !.pc = "done"]
    ELSE IF r.status = 204
    THEN [a EXCEPT !.outcome = "returned", !.result = r, !.pc = "done"]
    ELSE IF ~r.json \/ ~ok(r)
    THEN [a EXCEPT !.outcome = "thrown", !.pc = "done"]
    ELSE [a EXCEPT !.outcome = "returned", !.result = r, !.pc = "done"]

\* the request is sent and its response handled
ApiFetch(r) ==
    /\ api.pc = "fetch"
    /\ api' = afterFirst([withHeader(api, TRUE) EXCEPT !.sent = @ + 1, !.first = r], r)
    /\ UNCHANGED <<server, app>>

\* after a CSRF rejection: await this.initCSRF() once more
ApiRefetch(ans) ==
    /\ api.pc = "refetch"
    /\ ~ans.ok => api.timers < MaxTimers
    /\ api' = [withHeader(initCSRF(api, ans), FALSE) EXCEPT !.fetched = @ + 1, !.refetched = @ + 1, !.pc = "retry"]
    /\ UNCHANGED <<server, app>>

\* the request is sent again and retryData returned
ApiRetry(r) ==
    /\ api.pc = "retry"
    /\ api' = [api EXCEPT !.sent = @ + 1, !.second = r, !.pc = "done",
                          !.outcome = IF r.json THEN "returned" ELSE "thrown",
                          !.result = IF r.json THEN r ELSE NoResponse]
    /\ UNCHANGED <<server, app>>

\* a scheduled initCSRF runs
ApiTimer(ans) ==
    /\ api.timers > 0
    /\ api' = initCSRF([api EXCEPT !.timers = @ - 1], ans)
    /\ UNCHANGED <<server, app>>

NextClient ==
    \/ \E m \in Methods : ApiRequest(m)
    \/ \E ans \in TokenAnswers : ApiInit(ans)
    \/ \E r \in Answers : ApiFetch(r)
    \/ \E ans \in TokenAnswers : ApiRefetch(ans)
    \/ \E r \in Answers : ApiRetry(r)
    \/ \E ans \in TokenAnswers : ApiTimer(ans)

SpecClient == Init /\ [][NextClient]_vars

\* a scheduled initCSRF starts: the timer is gone and its fetch under way
TimerFires ==
    /\ api.timers > 0
    /\ api.running < MaxTimers
    /\ api' = [api EXCEPT !.timers = @ - 1, !.running = @ + 1]
    /\ UNCHANGED <<server, app>>

\* the fetch of a scheduled initCSRF is answered
TimerFetched(ans) ==
    /\ api.running > 0
    /\ ~ans.ok => api.timers < MaxTimers
    /\ api' = initCSRF([api EXCEPT !.running = @ - 1], ans)
    /\ UNCHANGED <<server, app>>

\* the page while GET /api/csrf-token keeps failing
NextRetry ==
    \/ \E m \in Methods : ApiRequest(m)
    \/ ApiInit(TokenFailed)
    \/ \E r \in Answers : ApiFetch(r)
    \/ ApiRefetch(TokenFailed)
    \/ \E r \in Answers : ApiRetry(r)
    \/ TimerFires
    \/ TimerFetched(TokenFailed)

\* a timer set with setTimeout runs after its delay, and a fetch is answered
\* or fails
SpecRetry ==
    /\ Init
    /\ [][NextRetry]_vars
    /\ WF_vars(TimerFires)
    /\ WF_vars(TimerFetched(TokenFailed))

----------------------------------------------------------------------------
(* The server: any client sends any request *)

\* a GET request carries no token
TokensFor(route) == IF route \in MutatingRoutes THEN Tokens ELSE {NoToken}

-----------------------------------------------------------------------------
(* The product name in the path: written by the page, read by the handler.
   A name is a sequence of characters. *)

\* the characters of product names
NameChars == {"n", " ", "%", "2", "0"}

\* the names a product can be stored under
CatalogNames == UNION {[1..k -> NameChars] : k \in 1..MaxChars}

\* the hexadecimal digits among the characters
HexDigits == {"0", "2", "5"}

\* the escape of one character: letters and digits stay, the others become
\* a percent sign and the two digits of their code
escaped(ch) ==
    CASE ch = " " -> <<"%", "2", "0">>
      [] ch = "%" -> <<"%", "2", "5">>
      [] OTHER -> <<ch>>

RECURSIVE encodeURIComponent(_)
encodeURIComponent(s) ==
    IF s = <<>> THEN <<>> ELSE escaped(Head(s)) \o encodeURIComponent(Tail(s))

\* the character with the code written by two hexadecimal digits
unescaped(h, l) ==
    CASE <<h, l>> = <<"2", "0">> -> " "
      [] <<h, l>> = <<"2", "5">> -> "%"
      [] <<h, l>> = <<"2", "2">> -> "\""
      [] <<h, l>> = <<"5", "0">> -> "P"
      [] <<h, l>> = <<"5", "2">> -> "R"
      [] <<h, l>> = <<"5", "5">> -> "U"
      [] <<h, l>> = <<"0", "0">> -> "U+0000"
      [] <<h, l>> = <<"0", "2">> -> "U+0002"
      [] <<h, l>> = <<"0", "5">> -> "U+0005"

\* what decodeURIComponent throws on a percent sign without two digits
URIError == <<"URIError">>

RECURSIVE decodeURIComponent(_)
decodeURIComponent(s) ==
    IF s = <<>> THEN <<>>
    ELSE IF Head(s) # "%"
    THEN LET rest == decodeURIComponent(Tail(s))
         IN  IF rest = URIError THEN URIError ELSE <<Head(s)>> \o rest
    ELSE IF Len(s) >= 3 /\ s[2] \in HexDigits /\ s[3] \in HexDigits
    THEN LET rest == decodeURIComponent(SubSeq(s, 4, Len(s)))
         IN  IF rest = URIError THEN URIError ELSE <<unescaped(s[2], s[3])>> \o rest
    ELSE URIError

\* App.toggleFavorite, App.addToCart, App.removeFromCart: the page puts the
\* encoded name of a product of the catalog into the path
AppEncode(name) ==
    /\ uri.step = "idle"
    /\ uri' = [NoUri EXCEPT !.name = name, !.path = encodeURIComponent(name),
                            !.step = "sent"]
    /\ UNCHANGED <<store, sessions, secretSeq, adds, idle, api, limiter, adding,
                   updating, app, toggling, last>>

\* the router decodes the path segment into req.params.productName, and
\* answers 400 when it cannot
RouteParam ==
    /\ uri.step = "sent"
    /\ LET param == decodeURIComponent(uri.path)
       IN  uri' = IF param = URIError
                  THEN [uri EXCEPT !.step = "done", !.status = 400]
                  ELSE [uri EXCEPT !.step = "routed", !.param = param]
    /\ UNCHANGED <<store, sessions, secretSeq, adds, idle, api, limiter, adding,
                   updating, app, toggling, last>>

\* the handlers of /api/users/favorites/:productName and
\* /api/users/cart/:productName decode the parameter again and look the
\* product up by the result; the catalog holds the product the page named
HandlerLookup ==
    /\ uri.step = "routed"
    /\ LET decodedProductName == decodeURIComponent(uri.param)
       IN  uri' = IF decodedProductName = URIError
                  THEN [uri EXCEPT !.step = "done", !.status = 500]
                  ELSE [uri EXCEPT !.step = "done", !.lookup = decodedProductName,
                                   !.status = IF decodedProductName = uri.name
                                              THEN 200 ELSE 404]
    /\ UNCHANGED <<store, sessions, secretSeq, adds, idle, api, limiter, adding,
                   updating, app, toggling, last>>

NextUri ==
    \/ \E name \in CatalogNames : AppEncode(name)
    \/ RouteParam
    \/ HandlerLookup

SpecUri == Init /\ [][NextUri]_vars

Next ==
    \/ \E c \in Clients, r \in MutatingRoutes, t \in Tokens : CsrfRejected(c, r, t)
    \/ \E c \in Clients, r \in SessionRoutes : \E t \in TokensFor(r) : Unauthenticated(c, r, t)
    \/ \E c \in Clients, r \in AdminRoutes : \E t \in TokensFor(r) : AdminRequired(c, r, t)
    \/ \E c \in Clients : GetCsrfToken(c)
    \/ \E c \in Clients : GetProducts(c)
    \/ \E c \in Clients, t \in Tokens, b \in RegisterBodies : Register(c, t, b)
    \/ \E c \in Clients, t \in Tokens, e \in LoginEmails, p \in LoginPasswords : Login(c, t, e, p)
    \/ \E c \in Clients : VerifySession(c)
    \/ \E c \in Clients, t \in Tokens : Logout(c, t)
    \/ \E c \in Clients : GetFavorites(c)
    \/ \E c \in Clients, t \in Tokens, n \in ReqNames : ToggleFavorite(c, t, n)
    \/ \E c \in Clients : GetCart(c)
    \/ \E c \in Clients, t \in Tokens, n \in ReqNames : AddToCart(c, t, n)
    \/ \E c \in Clients, t \in Tokens, n \in ReqNames : RemoveFromCart(c, t, n)
    \/ \E c \in Clients : AdminGetUsers(c)
    \/ \E c \in Clients : AdminGetStats(c)
    \/ \E c \in Clients : AdminGetProducts(c)
    \/ \E c \in Clients, t \in Tokens, p \in PathValues, b \in UpdateBodies :
          AdminUpdateUser(c, t, p, b)
    \/ \E c \in Clients, t \in Tokens, p \in PathValues : AdminDeleteUser(c, t, p)
    \/ \E c \in Clients, t \in Tokens, n \in AddNames : AdminAddProduct(c, t, n)
    \/ Tick
    \/ StartServer
    \/ NextClient
    \/ \E c \in Clients, e \in LoginEmails :
          \/ AuthLimiterAdmit(c, "POST /api/auth/login", e)
          \/ AuthLimiterAdmit(c, "POST /api/auth/register", e)
          \/ AuthLimiterReject(c, "POST /api/auth/login", e)
          \/ AuthLimiterReject(c, "POST /api/auth/register", e)
    \/ AuthLimiterFinish
    \/ WindowReset
    \/ \E c \in Clients, t \in Tokens, n \in ReqNames : AddToCartRead(c, t, n)
    \/ \E c \in Clients : AddToCartWrite(c)
    \/ \E c \in Clients, t \in Tokens, n \in ReqNames : ToggleFavoriteRead(c, t, n)
    \/ \E c \in Clients : ToggleFavoriteWrite(c)
    \/ \E c \in Clients, t \in Tokens, p \in PathValues, b \in UpdateBodies :
          \/ AdminUserAuth(c, t, "PUT /api/admin/users/:userId", p, b)
          \/ AdminUserAuth(c, t, "DELETE /api/admin/users/:userId", p, b)
    \/ \E c \in Clients : AdminUserWrite(c)
    \/ AppLogin
    \/ AppLoadUserData
    \/ \E n \in AppNames : AppToggleFavorite(n) \/ AppAddToCart(n) \/ AppRemoveFromCart(n)
    \/ AppAnswered
    \/ AppCheckout
    \/ NextUri
    \/ TimerFires
    \/ \E ans \in TokenAnswers : TimerFetched(ans)

Spec == Init /\ [][Next]_vars

----------------------------------------------------------------------------
(* Scenarios: parts of Next with fewer inputs.  Every step of one of them is
   a step of Next. *)

Credentials == { <<AdminEmail, AdminPassword>>, <<"jane@example.com", "password1">> }
JaneBody == Body("jane@example.com", "password1", "Jane", "Doe", Absent)
ShopWrites ==
    { "POST /api/users/favorites/:productName",
      "POST /api/users/cart/:productName", "DELETE /api/users/cart/:productName" }
Deactivate == Update(Absent, "false")
Promote == Update("admin", Absent)
Demote == Update("user", Absent)

\* sign-in with good credentials; no sign-out
SignIn ==
    \/ \E c \in Clients : GetCsrfToken(c)
    \/ \E c \in Clients, t \in Tokens : Register(c, t, JaneBody)
    \/ \E c \in Clients, t \in Tokens, cr \in Credentials : Login(c, t, cr[1], cr[2])

\* the writes to favorites and cart, and the administrator deleting users
NextShop ==
    \/ SignIn
    \/ \E c \in Clients, r \in ShopWrites, t \in Tokens : Unauthenticated(c, r, t)
    \/ \E c \in Clients, t \in Tokens, n \in ReqNames : ToggleFavorite(c, t, n)
    \/ \E c \in Clients, t \in Tokens, n \in ReqNames : AddToCart(c, t, n)
    \/ \E c \in Clients, t \in Tokens, n \in ReqNames : RemoveFromCart(c, t, n)
    \/ \E c \in Clients, t \in Tokens, p \in {<<"1">>, <<"2">>} : AdminDeleteUser(c, t, p)

SpecShop == Init /\ [][NextShop]_vars

\* registration, login, logout and the CSRF guard; the administrator
\* deactivating and reactivating accounts
NextAuth ==
    \/ \E c \in Clients, r \in MutatingRoutes, t \in Tokens : CsrfRejected(c, r, t)
    \/ \E c \in Clients : GetCsrfToken(c)
    \/ \E c \in Clients : GetProducts(c)
    \/ \E c \in Clients, t \in Tokens, b \in RegisterBodies : Register(c, t, b)
    \/ \E c \in Clients, t \in Tokens, e \in LoginEmails, p \in LoginPasswords : Login(c, t, e, p)
    \/ \E c \in Clients : VerifySession(c)
    \/ \E c \in Clients : Unauthenticated(c, "GET /api/auth/verify", NoToken)
    \/ \E c \in Clients, t \in Tokens : Logout(c, t)
    \/ \E c \in Clients, t \in Tokens, p \in {<<"1">>, <<"2">>},
          b \in {Deactivate, Update(Absent, "true")} : AdminUpdateUser(c, t, p, b)

SpecAuth == Init /\ [][NextAuth]_vars

\* the administrator's browser c1 and a customer's browser c2
SignInAs ==
    \/ \E c \in Clients : GetCsrfToken(c)
    \/ \E t \in Tokens : Register("c2", t, JaneBody)
    \/ \E t \in Tokens : Login("c1", t, AdminEmail, AdminPassword)
    \/ \E t \in Tokens : Login("c2", t, "jane@example.com", "password1")

\* the admin routes
NextAdmin ==
    \/ SignInAs
    \/ \E c \in Clients, r \in AdminRoutes : \E t \in TokensFor(r) : Unauthenticated(c, r, t)
    \/ \E c \in Clients, r \in AdminRoutes : \E t \in TokensFor(r) : AdminRequired(c, r, t)
    \/ \E c \in Clients : AdminGetUsers(c)
    \/ \E c \in Clients : AdminGetStats(c)
    \/ \E c \in Clients : AdminGetProducts(c)
    \/ \E c \in Clients, t \in Tokens, p \in PathValues, b \in UpdateBodies :
          AdminUpdateUser(c, t, p, b)
    \/ \E c \in Clients, t \in Tokens, p \in PathValues : AdminDeleteUser(c, t, p)
    \/ \E c \in Clients, t \in Tokens, n \in AddNames : AdminAddProduct(c, t, n)

SpecAdmin == Init /\ [][NextAdmin]_vars

\* every route that carries authenticateToken; the customer shops
NextGate ==
    \/ SignInAs
    \/ \E c \in Clients, r \in SessionRoutes \cap MutatingRoutes : CsrfRejected(c, r, NoToken)
    \/ \E c \in Clients, r \in SessionRoutes : \E t \in TokensFor(r) : Unauthenticated(c, r, t)
    \/ \E c \in Clients, r \in AdminRoutes : \E t \in TokensFor(r) : AdminRequired(c, r, t)
    \/ \E c \in Clients : VerifySession(c)
    \/ GetFavorites("c2")
    \/ \E t \in Tokens : ToggleFavorite("c2", t, "Air Max 90")
    \/ GetCart("c2")
    \/ \E t \in Tokens : AddToCart("c2", t, "Air Max 90")
    \/ \E t \in Tokens : RemoveFromCart("c2", t, "Air Max 90")
    \/ \E c \in Clients : AdminGetUsers(c)
    \/ \E c \in Clients : AdminGetStats(c)
    \/ \E c \in Clients : AdminGetProducts(c)
    \/ \E c \in Clients, t \in Tokens, b \in {Deactivate, Update(Absent, "true")} :
          AdminUpdateUser(c, t, <<"2">>, b)
    \/ \E c \in Clients, t \in Tokens : AdminDeleteUser(c, t, <<"2">>)
    \/ \E c \in Clients, t \in Tokens : AdminAddProduct(c, t, "Runner X")

SpecGate == Init /\ [][NextGate]_vars

\* the administrator deletes the customer, whose browser goes on with its
\* session, and registers the customer's e-mail again from its own browser
NextDeleted ==
    \/ SignInAs
    \/ \E t \in Tokens : AdminDeleteUser("c1", t, <<"2">>)
    \/ \E t \in Tokens : Register("c1", t, JaneBody)
    \/ \E c \in Clients, r \in SessionRoutes \cap MutatingRoutes, t \in Tokens : CsrfRejected(c, r, t)
    \/ \E c \in Clients, r \in SessionRoutes : \E t \in TokensFor(r) : Unauthenticated(c, r, t)
    \/ \E c \in Clients : VerifySession(c)
    \/ GetFavorites("c2")
    \/ \E t \in Tokens : ToggleFavorite("c2", t, "Air Max 90")

SpecDeleted == Init /\ [][NextDeleted]_vars

\* the server is started again between requests; the administrators delete
\* accounts and add a product of a new name
NextStart ==
    \/ SignInAs
    \/ StartServer
    \/ \E c \in Clients : GetProducts(c)
    \/ \E c \in Clients, t \in Tokens : AdminUpdateUser(c, t, <<"2">>, Promote)
    \/ \E c \in Clients, t \in Tokens, p \in {<<"1">>, <<"2">>} : AdminDeleteUser(c, t, p)
    \/ \E c \in Clients, t \in Tokens : AdminAddProduct(c, t, "Runner X")

SpecStart == Init /\ [][NextStart]_vars

\* two administrators, each changing or deleting the other's account, the
\* requests in two steps; every path value is the plain id
NextAdminRace ==
    \/ SignInAs
    \/ \E t \in Tokens : AdminUpdateUser("c1", t, <<"2">>, Promote)
    \/ \E c \in Clients, t \in Tokens, p \in {<<"1">>, <<"2">>}, b \in {Demote, Deactivate} :
          AdminUserAuth(c, t, "PUT /api/admin/users/:userId", p, b)
    \/ \E c \in Clients, t \in Tokens, p \in {<<"1">>, <<"2">>} :
          AdminUserAuth(c, t, "DELETE /api/admin/users/:userId", p, Update(Absent, Absent))
    \/ \E c \in Clients : AdminUserWrite(c)

SpecAdminRace == Init /\ [][NextAdminRace]_vars

\* sign-in, sign-out and the requests of a signed-out browser
NextLogout ==
    \/ SignInAs
    \/ \E c \in Clients, t \in Tokens : Logout(c, t)
    \/ \E c \in Clients, r \in SessionRoutes \cap MutatingRoutes, t \in Tokens :
          CsrfRejected(c, r, t)
    \/ \E c \in Clients, r \in SessionRoutes : \E t \in TokensFor(r) : Unauthenticated(c, r, t)
    \/ \E c \in Clients : VerifySession(c)
    \/ GetFavorites("c2")
    \/ \E t \in Tokens : ToggleFavorite("c2", t, "Air Max 90")
    \/ \E c \in Clients : AdminGetUsers(c)
    \/ AdminRequired("c2", "GET /api/admin/users", NoToken)

SpecLogout == Init /\ [][NextLogout]_vars

\* sessions that are used and sessions left idle
NextIdle ==
    \/ SignInAs
    \/ Tick
    \/ \E c \in Clients : GetProducts(c)
    \/ \E c \in Clients : VerifySession(c)
    \/ \E c \in Clients, r \in SessionRoutes : \E t \in TokensFor(r) : Unauthenticated(c, r, t)
    \/ \E c \in Clients, r \in SessionRoutes \cap MutatingRoutes, t \in Tokens :
          CsrfRejected(c, r, t)
    \/ \E t \in Tokens : ToggleFavorite("c2", t, "Air Max 90")

SpecIdle == Init /\ [][NextIdle]_vars

\* two users, each with favorites and a cart
NextOwn ==
    \/ SignInAs
    \/ \E c \in Clients : GetFavorites(c)
    \/ \E c \in Clients : GetCart(c)
    \/ \E c \in Clients, t \in Tokens, n \in ReqNames : ToggleFavorite(c, t, n)
    \/ \E c \in Clients, t \in Tokens, n \in ReqNames : AddToCart(c, t, n)
    \/ \E c \in Clients, t \in Tokens, n \in ReqNames : RemoveFromCart(c, t, n)

SpecOwn == Init /\ [][NextOwn]_vars

----------------------------------------------------------------------------
(* Properties *)

Toggle == "POST /api/users/favorites/:productName"
CartAdd == "POST /api/users/cart/:productName"
CartRemove == "DELETE /api/users/cart/:productName"
UserPut == "PUT /api/admin/users/:userId"
UserDelete == "DELETE /api/admin/users/:userId"
RegisterRoute == "POST /api/auth/register"
LoginRoute == "POST /api/auth/login"

\* the step served a request (the response is a new one)
Served == last' # last

\* C1: every favorites row and every cart_items row references a user and a
\* product that exist; after a user is deleted none of its rows remains.
C1_NoOrphanRows ==
    \A r \in BagToSet(favorites) \cup BagToSet(cart_items) :
        r.user_id \in DOMAIN users /\ r.product_id \in DOMAIN products

\* C2: a successful favorites toggle answers isFavorite = TRUE exactly when the
\* pair had no row and leaves one row when it answers TRUE, none when FALSE;
\* a second toggle of the same pair right after the first answers the
\* negation of the first and leaves the pair's rows as before the first (no
\* row when the first answered TRUE, one row when it answered FALSE).
ToggleDone(l) == l.route = Toggle /\ l.status = 200
C2_ToggleTwice ==
    [][ToggleDone(last') =>
          LET u == last'.body.user
              p == last'.body.product
              first == last.body.isFavorite
              second == last'.body.isFavorite
          IN  /\ second = (favCount(favorites, u, p) = 0)
              /\ favCount(favorites', u, p) = (IF second THEN 1 ELSE 0)
              /\ (ToggleDone(last) /\ last.body.user = u /\ last.body.product = p)
                    => /\ second = ~first
                       /\ favCount(favorites', u, p) = (IF first THEN 0 ELSE 1)
       ]_vars

\* C2 witness: a toggle that answered isFavorite = FALSE and left no row
C2_ToggledBack ==
    /\ ToggleDone(last)
    /\ ~last.body.isFavorite
    /\ favCount(favorites, last.body.user, last.body.product) = 0

\* C3: after N >= 1 successful cart adds of a pair that had no row, the pair
\* has exactly one row and its quantity is N; after a successful cart remove
\* the pair has no row.
C3_CartQuantity ==
    /\ \A q \in DOMAIN adds :
          /\ cartCount(cart_items, q[1], q[2]) = 1
          /\ cartRows(cart_items, q[1], q[2]) = {Item(q[1], q[2], adds[q])}
    /\ (last.route = CartRemove /\ last.status = 200)
          => cartCount(cart_items, last.body.user, last.body.product) = 0

\* C3 witness: a pair added twice in a row
C3_AddedTwice == \E q \in DOMAIN adds : adds[q] >= 2

\* C4: an administrator's PUT or DELETE on /api/admin/users/:userId whose
\* path value designates the administrator's own row is answered 400 and
\* changes no user row.
C4_OwnAccountGuard ==
    [][(/\ Served
        /\ last'.route \in {UserPut, UserDelete}
        /\ last'.status \notin {401, 403}
        /\ sqliteRowid(last'.req.path) = sessions[last'.client].userId)
          => (last'.status = 400 /\ users' = users)
       ]_vars

\* the token is the one of the client's session
TokenOfSession(token, c) ==
    sessions[c].csrfSecret # 0 /\ token.secret = sessions[c].csrfSecret

CsrfMessage == "Token CSRF invalide"

\* C5: a POST, PUT or DELETE request without a token of its session is
\* answered 403 and changes neither the tables nor the session's user; a
\* request of another method is not answered by the guard; a mutating
\* request that carries the token just obtained from GET /api/csrf-token in
\* that session is not rejected by the guard.
C5_CsrfGuard ==
    [][Served =>
          LET c == last'.client IN
          /\ (last'.route \in MutatingRoutes /\ ~TokenOfSession(last'.req.token, c))
                => /\ last'.status = 403
                   /\ store' = store
                   /\ sessions'[c].userId = sessions[c].userId
          /\ last'.route \notin MutatingRoutes => last'.message # CsrfMessage
          /\ (/\ last.route = "GET /api/csrf-token"
              /\ last.client = c
              /\ last'.route \in MutatingRoutes
              /\ last'.req.token = last.body.csrfToken)
                => last'.message # CsrfMessage
       ]_vars

\* C5 witness: a login with the token of another session was rejected
C5_Rejected ==
    /\ last.route = LoginRoute
    /\ last.status = 403
    /\ last.req.token # NoToken

HasAccount(email) == \E i \in DOMAIN users : users[i].email = normalizeEmail(email)
AccountOf(email) == CHOOSE i \in DOMAIN users : users[i].email = normalizeEmail(email)
LoginHandled(l) ==
    l.route = LoginRoute /\ l.status # 403 /\ loginValid(l.req.email, l.req.password)

\* C6: a login that reaches the handler with the e-mail of an active account
\* and a wrong password, and one with an e-mail that has no account, get the
\* same status and body (401, the generic message), and the session's user
\* stays as it was.
C6_SameAnswer ==
    [][(/\ Served
        /\ LoginHandled(last')
        /\ \/ ~HasAccount(last'.req.email)
           \/ /\ HasAccount(last'.req.email)
              /\ users[AccountOf(last'.req.email)].is_active
              /\ users[AccountOf(last'.req.email)].password
                    # bcryptHash(last'.req.password))
          => /\ last'.status = 401
             /\ last'.message = GenericLoginMessage
             /\ last'.body = [dbOps |-> 1]
             /\ sessions' = sessions
       ]_vars

\* C6 witness: a login with the e-mail of an active account and a wrong password
C6_WrongPassword ==
    /\ LoginHandled(last)
    /\ last.status = 401
    /\ HasAccount(last.req.email)
    /\ users[AccountOf(last.req.email)].is_active
    /\ users[AccountOf(last.req.email)].password # bcryptHash(last.req.password)

\* C7: a login for an account that is not active gets the answer of a login
\* for an e-mail without account: 401 and the generic message.
C7_InactiveAsUnknown ==
    [][(/\ Served
        /\ LoginHandled(last')
        /\ HasAccount(last'.req.email)
        /\ ~users[AccountOf(last'.req.email)].is_active)
          => (last'.status = 401 /\ last'.message = GenericLoginMessage)
       ]_vars

\* the session of c has no user, or its user row is gone or not active
NoActiveUser(c) ==
    \/ sessions[c].userId = 0
    \/ sessions[c].userId \notin DOMAIN users
    \/ ~users[sessions[c].userId].is_active

\* C8 as claimed: on a route that requires a session, a request whose session
\* has no active user is answered 401 and the handler touches no storage.
C8_Always401 ==
    [][(Served /\ last'.route \in SessionRoutes /\ NoActiveUser(last'.client))
          => (last'.status = 401 /\ last'.body.dbOps = 0 /\ store' = store)
       ]_vars

\* C8 amended: on a route that requires a session, a request whose session
\* has no active user is answered 401, or 403 by the CSRF guard when it is a
\* POST, PUT or DELETE without a token of its session; in both cases the
\* handler touches no storage.
C8_GateBeforeHandler ==
    [][(Served /\ last'.route \in SessionRoutes /\ NoActiveUser(last'.client))
          => /\ \/ last'.status = 401
                \/ /\ last'.status = 403
                   /\ last'.route \in MutatingRoutes
                   /\ ~TokenOfSession(last'.req.token, last'.client)
             /\ last'.body.dbOps = 0
             /\ store' = store
       ]_vars

\* C8 witness: a 401 for a session whose user was deactivated or deleted
C8_StaleSession ==
    /\ last.route \in SessionRoutes
    /\ last.status = 401
    /\ sessions[last.client].userId # 0

IsActiveAdmin(uid) ==
    uid \in DOMAIN users /\ users[uid].is_active /\ users[uid].role = "admin"

\* C9: a request to an admin route by an active user who is not an
\* administrator is answered 403 and changes no user or product row; a
\* request by anyone but an active administrator changes no user's role or
\* active flag, deletes no user and adds no product.
C9_AdminOnly ==
    [][Served =>
          LET uid == sessions[last'.client].userId IN
          /\ (last'.route \in AdminRoutes /\ ~NoActiveUser(last'.client)
                 /\ users[uid].role # "admin")
                => (last'.status = 403 /\ users' = users /\ products' = products)
          /\ ~IsActiveAdmin(uid)
                => /\ \A i \in DOMAIN users :
                         /\ i \in DOMAIN users'
                         /\ users'[i].role = users[i].role
                         /\ users'[i].is_active = users[i].is_active
                   /\ products' = products
       ]_vars

\* C9 witness: requireAdmin answered a user who is not an administrator
C9_Refused ==
    /\ last.route \in AdminRoutes
    /\ last.status = 403
    /\ last.message = "Accès administrateur requis"

RegisterDone(l) == l.route = RegisterRoute /\ l.status = 200

\* C10: a successful registration creates a new row with role 'user' whatever
\* the body carries, answers with that row, and binds the session to its id;
\* a GET /api/auth/verify right after it in that session answers 200 with
\* the same user id.
C10_RegisterThenVerify ==
    [][Served =>
          /\ RegisterDone(last') =>
                LET id == last'.body.user.id IN
                /\ id \notin DOMAIN users
                /\ id \in DOMAIN users'
                /\ users'[id].role = "user"
                /\ last'.body.user.role = "user"
                /\ sessions'[last'.client].userId = id
          /\ (/\ RegisterDone(last)
              /\ last'.route = "GET /api/auth/verify"
              /\ last'.client = last.client)
                => (last'.status = 200 /\ last'.body.user.id = last.body.user.id)
       ]_vars

\* C10 witness: a registration whose body carried role 'admin' succeeded
C10_RegisteredWithRole == RegisterDone(last) /\ last.req.body.role = "admin"

StatsRoute == "GET /api/admin/stats"

adminCount(us) == Cardinality({i \in DOMAIN us : us[i].role = "admin"})

\* the step is a successful PUT with role 'admin' for an existing row other
\* than the caller's whose role is 'user'
PromotesOther ==
    /\ Served
    /\ last'.route = UserPut
    /\ last'.status = 200
    /\ last'.body.success
    /\ last'.req.body.role = "admin"
    /\ sqliteRowid(last'.req.path) \in DOMAIN users
    /\ sqliteRowid(last'.req.path) # sessions[last'.client].userId
    /\ users[sqliteRowid(last'.req.path)].role = "user"

\* C11: a successful PUT with role 'admin' for another existing user whose
\* role was 'user' raises the number of administrators by one and keeps the
\* number of users; a stats response reports the counts of the tables at
\* that moment, so the next one shows totalAdmins one higher and totalUsers
\* unchanged; in every stats response totalRegularUsers = totalUsers -
\* totalAdmins.
C11_StatsAfterPromotion ==
    [][/\ PromotesOther =>
             /\ adminCount(users') = adminCount(users) + 1
             /\ DOMAIN users' = DOMAIN users
       /\ (Served /\ last'.route = StatsRoute /\ last'.status = 200) =>
             LET st == last'.body.stats IN
             /\ last'.body.success
             /\ st.totalAdmins = adminCount(users)
             /\ st.totalUsers = Cardinality(DOMAIN users)
             /\ st.totalRegularUsers = st.totalUsers - st.totalAdmins
      ]_vars

\* C11 witness: the stats asked for right after a promotion show two administrators
C11_StatsShowPromotion ==
    /\ last.route = StatsRoute
    /\ last.status = 200
    /\ last.body.stats.totalAdmins = 2
    /\ last.body.stats.totalUsers = 2

LogoutRoute == "POST /api/auth/logout"

LogoutDone(l) == l.route = LogoutRoute /\ l.status = 200

\* C12 as claimed: the request of a client right after its successful logout,
\* on a route that requires a session, is answered 401.
C12_Always401AfterLogout ==
    [][(/\ Served
        /\ LogoutDone(last)
        /\ last'.client = last.client
        /\ last'.route \in SessionRoutes)
          => last'.status = 401
       ]_vars

\* C12 amended: a successful logout leaves the client's session without user;
\* from then on the session gets a user only by a successful login or
\* registration of that client; and while it has none, each request of the
\* client on a route that requires a session is answered 401, or 403 by the
\* CSRF guard when it is a POST, PUT or DELETE without a token of the
\* session, and changes no table.
C12_LoggedOutUntilSignIn ==
    [][Served =>
          LET c == last'.client IN
          /\ LogoutDone(last') => sessions'[c] = NoSession
          /\ (sessions[c].userId = 0 /\ last'.route \in SessionRoutes)
                => /\ \/ last'.status = 401
                      \/ /\ last'.status = 403
                         /\ last'.route \in MutatingRoutes
                         /\ ~TokenOfSession(last'.req.token, c)
                   /\ store' = store
          /\ \A d \in Clients :
                (sessions[d].userId = 0 /\ sessions'[d].userId # 0)
                   => /\ d = c
                      /\ last'.route \in {LoginRoute, RegisterRoute}
                      /\ last'.status = 200
       ]_vars

\* C12 witness: a session that had a user was logged out
C12_LoggedOut ==
    /\ LogoutDone(last)
    /\ last.body.user # 0
    /\ sessions[last.client].userId = 0

\* the session of c has a user before the step and none after it
LosesUser(c) == sessions[c].userId # 0 /\ sessions'[c].userId = 0

\* C13 as claimed: a session idle for more than 30 minutes has no user and
\* the next request on a route that requires a session is answered 401; each
\* request renews the window, so a session loses its user (other than by
\* logout) only when more than 30 minutes have passed since its last request.
C13_ExpiresAfterThirty ==
    [][/\ \A c \in Clients : sessions'[c].userId # 0 => idle'[c] <= maxAge
       /\ Served => idle'[last'.client] = 0
       /\ (Served /\ last'.route \in SessionRoutes /\ sessions[last'.client].userId = 0)
             => last'.status = 401
       /\ \A c \in Clients :
             LosesUser(c) =>
                \/ Served /\ LogoutDone(last') /\ last'.client = c
                \/ ~Served /\ idle[c] + TickMinutes > maxAge
      ]_vars

\* C13 amended: a session idle for 30 minutes or more has no user and the
\* next request on a route that requires a session is answered 401, or 403
\* by the CSRF guard when it is a POST, PUT or DELETE without a token of the
\* session; each request renews the window, so a session loses its user
\* (other than by logout) only when 30 minutes or more have passed since its
\* last request.
C13_ExpiresAtThirty ==
    [][/\ \A c \in Clients : sessions'[c].userId # 0 => idle'[c] < maxAge
       /\ Served => idle'[last'.client] = 0
       /\ (Served /\ last'.route \in SessionRoutes /\ sessions[last'.client].userId = 0)
             => \/ last'.status = 401
                \/ /\ last'.status = 403
                   /\ last'.route \in MutatingRoutes
                   /\ ~TokenOfSession(last'.req.token, last'.client)
       /\ \A c \in Clients :
             LosesUser(c) =>
                \/ Served /\ LogoutDone(last') /\ last'.client = c
                \/ ~Served /\ idle[c] + TickMinutes >= maxAge
      ]_vars

\* C13 witness: the session of a registered customer has expired and the
\* customer's next request was answered 401
C13_Expired ==
    /\ 2 \in DOMAIN users
    /\ sessions["c2"] = NoSession
    /\ last.client = "c2"
    /\ last.route = "GET /api/auth/verify"
    /\ last.status = 401

\* the first response of the call in progress is a 403 whose message names CSRF
FirstIsCsrfRejection == api.first.status = 403 /\ api.first.message = CsrfMessage

\* C14: in one call of API.request the request is sent at most twice; it is
\* sent a second time only when the first response was a 403 whose message
\* names CSRF, and after exactly one new token fetch; once the second
\* response is there the call is over, and a second response with a JSON
\* body is returned as it is, whatever its status.
C14_AtMostOneRetry ==
    /\ api.sent <= 2
    /\ api.refetched <= 1
    /\ api.pc \in {"init", "fetch"} => (api.sent = 0 /\ api.refetched = 0)
    /\ api.pc = "refetch" => (api.sent = 1 /\ api.refetched = 0 /\ FirstIsCsrfRejection)
    /\ api.pc = "retry" => (api.sent = 1 /\ api.refetched = 1 /\ FirstIsCsrfRejection)
    /\ api.sent = 1 /\ ~FirstIsCsrfRejection => api.pc = "done"
    /\ api.sent = 2 =>
          /\ FirstIsCsrfRejection
          /\ api.pc = "done"
          /\ api.refetched = 1
          /\ api.second.json => (api.outcome = "returned" /\ api.result = api.second)

\* C14 witness: the retry was answered 500 and that answer was returned
C14_RetryReturned ==
    /\ api.sent = 2
    /\ api.second.status = 500
    /\ api.outcome = "returned"

ExistsMessage == "Un compte avec cet email existe déjà"

\* C15: a registration that reaches its handler with valid fields and an
\* e-mail whose normalized form is the e-mail of a user row is answered 400
\* with the "account already exists" message, leaves the users table as it
\* is and leaves the user of the session as it is.
C15_DuplicateEmail ==
    [][(/\ Served
        /\ last'.route = RegisterRoute
        /\ last'.status # 403
        /\ registerValid(last'.req.body)
        /\ HasAccount(last'.req.body.email))
          => /\ last'.status = 400
             /\ last'.message = ExistsMessage
             /\ users' = users
             /\ userSeq' = userSeq
             /\ sessions'[last'.client].userId = sessions[last'.client].userId
       ]_vars

\* C15 witness: a registration with the e-mail of an account in another
\* letter case was refused
C15_Refused ==
    /\ last.route = RegisterRoute
    /\ last.status = 400
    /\ last.message = ExistsMessage
    /\ last.req.body.email = "Jane@Example.com"

\* the rows of table t that are not of user u are the same after the step
OthersKept(t, tAfter, u) ==
    \A r \in BagToSet(t) \cup BagToSet(tAfter) :
        r.user_id # u => CopiesIn(r, tAfter) = CopiesIn(r, t)

\* C16: GET /api/users/favorites and GET /api/users/cart answer with rows of
\* the caller only; a favorites toggle, a cart add and a cart remove leave
\* the favorites and cart_items rows of every other user as they are.
C16_OwnRowsOnly ==
    [][Served =>
          LET u == sessions[last'.client].userId IN
          /\ (last'.route = "GET /api/users/favorites" /\ last'.status = 200)
                => \A r \in last'.body.favorites : r.user_id = u
          /\ (last'.route = "GET /api/users/cart" /\ last'.status = 200)
                => \A r \in last'.body.cartItems : r.user_id = u
          /\ last'.route \in ShopWrites
                => /\ OthersKept(favorites, favorites', u)
                   /\ OthersKept(cart_items, cart_items', u)
       ]_vars

\* C16 witness: a user removed a product from the cart while another user
\* has the same product in the cart
C16_OtherCartKept ==
    /\ last.route = CartRemove
    /\ last.status = 200
    /\ \E r \in BagToSet(cart_items) :
          r.user_id # last.body.user /\ r.product_id = last.body.product

NoChangeMessage == "Aucune modification valide"

\* the PUT request of the step was handed to AdminFunctions.updateUser
UpdateUserCalled == Served /\ last'.route = UserPut /\ last'.status = 200

\* C17: a call of updateUser keeps the set of user rows, changes no row but
\* the one its id matches, and in that row nothing but role, to 'user' or
\* 'admin' as the body says, and is_active, to the boolean the body holds;
\* with neither a valid role nor a boolean is_active in the body it answers
\* the "no valid changes" failure and writes nothing.
C17_UpdateWhitelist ==
    [][UpdateUserCalled =>
          LET b == last'.req.body
              okRole == b.role \in {"user", "admin"}
              okActive == b.is_active \in {"true", "false"}
          IN
          /\ DOMAIN users' = DOMAIN users
          /\ \A i \in DOMAIN users :
                /\ i # sqliteRowid(last'.req.path) => users'[i] = users[i]
                /\ users'[i].email = users[i].email
                /\ users'[i].password = users[i].password
                /\ users'[i].first_name = users[i].first_name
                /\ users'[i].last_name = users[i].last_name
                /\ users'[i].role # users[i].role => (okRole /\ users'[i].role = b.role)
                /\ users'[i].is_active # users[i].is_active
                      => (okActive /\ users'[i].is_active = (b.is_active = "true"))
          /\ <<userSeq', products', favorites', cart_items'>>
                = <<userSeq, products, favorites, cart_items>>
          /\ (~okRole /\ ~okActive)
                => /\ ~last'.body.success
                   /\ last'.message = NoChangeMessage
                   /\ last'.body.dbOps = 0
                   /\ users' = users
       ]_vars

\* C17 witness: an administrator has deactivated another user
C17_Deactivated ==
    /\ last.route = UserPut
    /\ last.status = 200
    /\ last.body.success
    /\ last.req.body = Deactivate
    /\ 2 \in DOMAIN users
    /\ ~users[2].is_active

\* the step lets an attempt of key k through to the handlers
LetThrough(k) ==
    limiter.inflight = NoRequest /\ limiter'.inflight # NoRequest /\ limiter'.inflight.key = k

\* the step answers an attempt of key k with 429
Limited(k) ==
    /\ last' # last
    /\ last'.status = 429
    /\ keyGenerator(last'.client, last'.req.email) = k

AddProductRoute == "POST /api/admin/products"

\* the handler's storage operation failed: the INSERT of a product without a
\* name is refused by the table (name NOT NULL)
StorageFailed(l) ==
    l.route = AddProductRoute /\ l.body.dbOps = 1 /\ l.req.name = Absent

\* C19: a storage operation that fails inside a handler, admin handlers
\* included, is answered with status 500, success=false and a message, never
\* with a success status.
C19_StorageFailure500 ==
    [][(Served /\ StorageFailed(last')) =>
          /\ last'.status = 500
          /\ last'.body.success = FALSE
          /\ last'.message # ""
      ]_vars

AddRoute == "POST /api/users/cart/:productName"

\* C20: in every reachable state every cart_items row has quantity >= 1,
\* whatever the sequence or interleaving of add and remove requests.
C20_QuantityAtLeastOne ==
    \A r \in BagToSet(cart_items) : r.quantity >= 1

\* C20 witness: two adds of one pair ran interleaved, the second INSERT was
\* refused, and the pair's row is in the cart
C20_AddsCollided ==
    /\ last.route = AddRoute
    /\ last.status = 500
    /\ cartRows(cart_items, last.body.user, last.body.product) # {}

FavoriteRoute == "POST /api/users/favorites/:productName"

\* C21: under any interleaving of toggles and cart adds of one user for one
\* product there is never more than one favorites row and never more than
\* one cart_items row for a (user, product) pair.
C21_OneRowPerPair ==
    \A u \in DOMAIN users, p \in DOMAIN products :
        /\ favCount(favorites, u, p) <= 1
        /\ cartCount(cart_items, u, p) <= 1

\* C21 witness: two toggles of one pair ran interleaved, the second INSERT
\* was refused, and the pair has its one row
C21_TogglesCollided ==
    /\ last.route = FavoriteRoute
    /\ last.status = 500
    /\ favCount(favorites, last.body.user, last.body.product) = 1

SignedIn(l) == l.route \in {LoginRoute, RegisterRoute} /\ l.status = 200

\* C22: a token is accepted on a mutating request exactly when it is
\* presented with the session it was issued in (the session whose secret it
\* was made from).  A login or registration keeps the session's secret, so
\* the token stays valid; a logout removes the secret; a secret given to a
\* session is a new one, so a token never fits another or a later session.
C22_TokenBoundToSession ==
    [][Served =>
          LET c == last'.client
              issued == {csrfToken(k) : k \in 1..secretSeq}
          IN
          /\ last'.route \in MutatingRoutes =>
                (last'.message = CsrfMessage <=> ~TokenOfSession(last'.req.token, c))
          /\ SignedIn(last') =>
                /\ sessions'[c].csrfSecret = sessions[c].csrfSecret
                /\ TokenOfSession(last'.req.token, c)
          /\ LogoutDone(last') =>
                \A t \in issued : ~csrfProtection(LoginRoute, sessions'[c].csrfSecret, t)
          /\ \A d \in Clients :
                sessions'[d].csrfSecret \notin {0, sessions[d].csrfSecret} =>
                   /\ sessions'[d].csrfSecret > secretSeq
                   /\ \A e \in Clients \ {d} :
                         sessions'[e].csrfSecret # sessions'[d].csrfSecret
       ]_vars

\* C22 witness: a token whose session was destroyed was presented and rejected
C22_OldTokenRejected ==
    /\ last.message = CsrfMessage
    /\ last.req.token # NoToken
    /\ \A c \in Clients : sessions[c].csrfSecret # last.req.token.secret

\* the user's server rows as the page keeps them
serverFavorites(u) ==
    favoriteNames({r \in BagToSet(favorites) : r.user_id = u /\ r.product_id \in DOMAIN products})
serverCart(u) ==
    cartEntries({r \in BagToSet(cart_items) : r.user_id = u /\ r.product_id \in DOMAIN products})

\* C23: after any sequence of completed operations of one signed-in page,
\* App.cart holds exactly the names and quantities of the user's cart rows
\* and App.favorites exactly the names of the user's favorites.
C23_CacheIsServerState ==
    (app.user # 0 /\ app.loaded /\ app.call = NoAppCall) =>
        /\ app.cart = serverCart(app.user)
        /\ app.favorites = serverFavorites(app.user)

\* the stored quantity of a pair, an absent row counting as 0
RECURSIVE SumQuantity(_)
SumQuantity(rows) ==
    IF rows = {} THEN 0
    ELSE LET r == CHOOSE x \in rows : TRUE IN r.quantity + SumQuantity(rows \ {r})
storedQuantity(items, u, p) == SumQuantity(cartRows(items, u, p))

\* C24: every cart add that answers success has raised the stored quantity
\* of its pair by exactly 1 at its write, under any interleaving with adds
\* and removes of the same pair.
C24_AddRaisesByOne ==
    [][(Served /\ last'.route = AddRoute /\ last'.status = 200) =>
          storedQuantity(cart_items', last'.body.user, last'.body.product)
             = storedQuantity(cart_items, last'.body.user, last'.body.product) + 1
      ]_vars

\* the step is the write of the toggle that browser c has in progress
ToggleWritten(c) == toggling[c] # NoCall /\ toggling'[c] = NoCall

isFavorite(favs, u, p) == favCount(favs, u, p) > 0

\* C25: two toggles of one pair issued concurrently both answer success and
\* leave the pair's favorite state as it was before them.  Stated for the
\* second write: a toggle whose pair was toggled by a concurrent request
\* after its SELECT answers success and leaves the state it selected.
C25_ConcurrentTogglesCancel ==
    [][\A c \in Clients :
          LET a == toggling[c] IN
          (ToggleWritten(c) /\ isFavorite(favorites, a.user, a.product) # a.existing)
             => /\ last'.status = 200
                /\ isFavorite(favorites', a.user, a.product) = a.existing
      ]_vars

\* C26: in every reachable state at least one user row has role 'admin' and
\* is active, under any interleaving of the update and delete requests of
\* authenticated administrators.
C26_ActiveAdminExists == \E i \in DOMAIN users : IsActiveAdmin(i)

\* C27: after any number of server starts there is exactly one user row with
\* the seed administrator's e-mail and exactly one product row for each of
\* the three seed product names.
C27_SeededOnce ==
    /\ Cardinality({i \in DOMAIN users : users[i].email = AdminEmail}) = 1
    /\ \A k \in 1..Len(SeedProducts) :
          Cardinality({i \in DOMAIN products : products[i].name = SeedProducts[k]}) = 1

\* the session of the client is bound to the id of a deleted user
BoundToDeleted(c) == sessions[c].userId # 0 /\ sessions[c].userId \notin DOMAIN users

\* C28 as claimed: a request on a session route whose session is bound to a
\* deleted user's id is answered 401.
C28_DeletedAlways401 ==
    [][(Served /\ last'.route \in SessionRoutes /\ BoundToDeleted(last'.client))
          => last'.status = 401
      ]_vars

\* C28 amended: a request on a session route whose session is bound to a
\* deleted user's id is answered 401, or 403 by the CSRF guard when it is a
\* POST, PUT or DELETE without a token of its session, and changes no table;
\* the id stays without a row, because a new row gets an id above every id
\* given before.
C28_DeletedStaysOut ==
    [][/\ (Served /\ last'.route \in SessionRoutes /\ BoundToDeleted(last'.client))
          => /\ \/ last'.status = 401
                \/ /\ last'.status = 403
                   /\ last'.message = CsrfMessage
                   /\ last'.route \in MutatingRoutes
                   /\ ~TokenOfSession(last'.req.token, last'.client)
             /\ store' = store
       /\ \A i \in DOMAIN users' \ DOMAIN users : i > userSeq
       /\ \A c \in Clients :
             (BoundToDeleted(c) /\ sessions'[c].userId = sessions[c].userId)
                => sessions'[c].userId \notin DOMAIN users'
      ]_vars

\* C28 witness: a session bound to a deleted user's id was answered 401 after
\* a later registration
C28_DeletedAfterNewUser ==
    /\ last.route \in SessionRoutes
    /\ last.status = 401
    /\ BoundToDeleted(last.client)
    /\ \E i \in DOMAIN users : i > sessions[last.client].userId

\* C29 as claimed: for every name of the catalog the handler ends up looking
\* up the name the page encoded, and finds the product.
C29_LookupIsName ==
    uri.step = "done" => (uri.status = 200 /\ uri.lookup = uri.name)

\* C30 as claimed: while GET /api/csrf-token keeps failing, once the page
\* makes no further API.request call the retries of initCSRF come to an end:
\* from some moment on no retry is scheduled and none is running.
C30_RetryingStops ==
    (<>[](api.pc \in {"ready", "done"}))
        => <>[](api.timers = 0 /\ api.running = 0)

====
